---- MODULE Spec2Model ----
(***************************************************************************)
(* fastapi-ddd: the differential many-to-many sync engine of RoleService,  *)
(* the unit-of-work boundary around it (transaction / get_session), user   *)
(* registration, and the in-process event bus.                             *)
(*                                                                         *)
(* The relational store is a committed database plus, per session, the     *)
(* writes flushed but not yet committed.  A session reads the committed    *)
(* rows overlaid with its own flushed writes (PostgreSQL READ COMMITTED,   *)
(* the default of create_async_engine).                                    *)
(***************************************************************************)
EXTENDS Integers, Sequences, FiniteSets, TLC

(***************************************************************************)
(* Bounds of the model.                                                    *)
(***************************************************************************)
\* longest id list a caller passes to a sync operation
MaxLen == 2
\* service calls (sync_permissions, sync_user_to_roles, register, create) per
\* behaviour
MaxCalls == 2

(***************************************************************************)
(* Reference data.  Roles are written by RoleSeeder only (the roles router *)
(* excludes create/update/delete) and no route writes permissions, so the  *)
(* rows below are fixed while the application serves requests.  Rows that  *)
(* RoleService.create and PermissionService.create add are kept in the     *)
(* tables "roles" and "permissions" of the store.                          *)
(***************************************************************************)
Roles == {[id |-> "r_admin", name |-> "admin"], [id |-> "r_user", name |-> "user"]}

Permissions ==
    {[id |-> "p1", resource |-> "users", action |-> "read"],
     [id |-> "p2", resource |-> "users", action |-> "write"],
     [id |-> "p3", resource |-> "roles", action |-> "read"]}

\* ids that reference no row
UnknownRoleId == "r_none"

UnknownPermissionId == "p_none"

RoleIdInputs == {r.id : r \in Roles} \cup {UnknownRoleId}

PermissionIdInputs == {p.id : p \in Permissions} \cup {UnknownPermissionId}

Usernames == {"alice", "bob"}

\* user ids a caller may pass: UserRole.user_id is a plain String(36) column
\* without a foreign key, so any id is accepted
UserIdInputs == {[of |-> <<u>>, n |-> 1] : u \in Usernames}

Emails == {"a@x.io", "b@x.io"}

\* one AsyncSession per request; two requests can be in flight
Sessions == {"A", "B"}

Tables == {"users", "user_roles", "role_permissions", "roles", "permissions"}

VARIABLES
    committed,  \* table name -> set of committed rows
    pending,    \* session -> [ins: table -> rows flushed, del: table -> ids deleted]
    sess,       \* session -> position and locals of the running request
    last,       \* session -> record of the last finished service call
    calls,      \* number of service calls started
    handlers,   \* SimpleEventBus._handlers: event type -> list of handlers
    subscribed, \* the subscribe calls made so far, in order
    pub,        \* the publish call in progress or last finished
    now,        \* the clock, in minutes
    auth        \* the tokens a client holds and the last use of a token

\* the store, its sessions and the service calls made in them
storeVars == <<committed, pending, sess, last, calls>>

\* the event bus
busVars == <<handlers, subscribed, pub>>

\* the clock and the tokens
authVars == <<now, auth>>

vars == <<committed, pending, sess, last, calls, handlers, subscribed, pub, now, auth>>

(***************************************************************************)
(* Helpers on sets and sequences.                                          *)
(***************************************************************************)
RECURSIVE SetToSeq(_)
\* list(a_set): some enumeration of the set, each element once
SetToSeq(S) ==
    IF S = {} THEN <<>>
    ELSE LET x == CHOOSE y \in S : TRUE
         IN <<x>> \o SetToSeq(S \ {x})

\* set(a_list)
ToSet(ids) == {ids[i] : i \in DOMAIN ids}

IdLists(S) == UNION {[1..n -> S] : n \in 0..MaxLen}

(***************************************************************************)
(* The store.                                                              *)
(***************************************************************************)
NoWrites == [ins |-> [t \in Tables |-> {}], del |-> [t \in Tables |-> {}]]

\* what a statement of session s reads from table t
View(s, t) == {r \in committed[t] : r.id \notin pending[s].del[t]} \cup pending[s].ins[t]

\* session.flush() of a DELETE ... WHERE id IN ids
DbDelete(p, t, ids) ==
    [ins |-> [p.ins EXCEPT ![t] = {r \in @ : r.id \notin ids}],
     del |-> [p.del EXCEPT ![t] = @ \cup {r.id : r \in {c \in committed[t] : c.id \in ids}}]]

\* session.add_all(rows); session.flush()
DbInsert(p, t, rows) == [p EXCEPT !.ins[t] = @ \cup rows]

\* session.commit()
DbCommit(s) == [t \in Tables |-> View(s, t)]

\* ids held by a row of table t or by a local variable of a request
UsedIds(t) ==
    {r.id : r \in committed[t]}
    \cup UNION {{r.id : r \in pending[s].ins[t]} \cup pending[s].del[t] : s \in Sessions}
    \cup UNION {{r.id : r \in sess[s].existing \cup sess[s].deleted} : s \in Sessions}
    \cup {sess[s].user_id : s \in Sessions} \cup {last[s].user_id : s \in Sessions}
    \cup UNION {{r.id : r \in last[s].before \cup last[s].deleted \cup last[s].inserted} :
                   s \in Sessions}

\* BaseModel.id = uuid4(): a value no row and no variable holds yet.  The
\* model names a new row after its content plus the smallest number that makes
\* the name unused, so that equal tables get equal names.
NewId(used, content) ==
    [of |-> content,
     n |-> CHOOSE i \in 1..(Cardinality(used) + 1) :
               /\ [of |-> content, n |-> i] \notin used
               /\ \A j \in 1..(i - 1) : [of |-> content, n |-> j] \in used]

RECURSIVE NewIds(_, _)
\* one new id per element of the list `contents`
NewIds(used, contents) ==
    IF contents = <<>> THEN <<>>
    ELSE LET id == NewId(used, Head(contents))
         IN <<id>> \o NewIds(used \cup {id}, Tail(contents))

(***************************************************************************)
(* Outcomes of a service call.                                             *)
(***************************************************************************)
Returned == [kind |-> "returned", status |-> 200, detail |-> {}]

HttpError(code, ids) == [kind |-> "HTTPException", status |-> code, detail |-> ids]

\* any exception that is not an HTTPException reaches the client as a 500
Error(name) == [kind |-> name, status |-> 500, detail |-> {}]

\* a result list as a bag: permission id -> number of entries
EmptyBag == [p \in {q.id : q \in Permissions} |-> 0]

\* the id of no row
NoId == [of |-> <<>>, n |-> 0]

\* no registration payload
NoUser == [username |-> "", email |-> ""]

\* no create payload
NoObj == [table |-> "none", username |-> "", email |-> "", name |-> "", resource |-> "",
          action |-> ""]

NoCall ==
    [op |-> "none", role_id |-> "", user_id |-> NoId, len |-> 0, desired |-> {},
     outcome |-> Error("none"), obj_in |-> NoObj, id |-> NoId, trace |-> <<>>,
     listed |-> {},
     before |-> {}, deleted |-> {}, inserted |-> {}, after |-> {}, returned |-> EmptyBag]

Closed ==
    [status |-> "closed", pc |-> "none", op |-> "none", role_id |-> "", user_id |-> NoId,
     len |-> 0, desired |-> {}, existing |-> {}, to_add |-> <<>>, to_remove |-> {},
     before |-> {}, deleted |-> {}, inserted |-> {}, user_in |-> NoUser, obj_in |-> NoObj,
     id |-> NoId, trace |-> <<>>, listed |-> {}]

Idle == [Closed EXCEPT !.status = "open", !.pc = "idle"]

(***************************************************************************)
(* BaseRepository / BaseService.                                           *)
(***************************************************************************)
\* BaseRepository.get: session.get(model, id); the rows found (none or one)
RepositoryGet(rows, id) == {r \in rows : r.id = id}

\* mutant of RepositoryFlush: the repository commits after its flush
RepositoryFlushCommits(s, p) ==
    [t \in Tables |-> {r \in committed[t] : r.id \notin p.del[t]} \cup p.ins[t]]

\* the committed store after a repository method has flushed the writes p:
\* create, update, force_delete and soft_delete call flush and never commit
RepositoryFlush(s, p) == committed

\* BaseService.get.  For an absent row it builds
\* HTTPException(status_code=404, default=...); HTTPException has no
\* parameter "default", so the construction itself raises TypeError.
ServiceGet(rows, id) == IF RepositoryGet(rows, id) = {} THEN Error("TypeError") ELSE Returned

(***************************************************************************)
(* Unit of work.                                                           *)
(***************************************************************************)
\* mutant of TransactionExit: commits in every case
TransactionExitAlwaysCommit(s, raised) == DbCommit(s)

\* transaction(session): commit when the body returns, rollback (and
\* re-raise) when it raises; the committed store after the scope
TransactionExit(s, raised) == IF raised THEN committed ELSE DbCommit(s)

\* the record of a finished call, taken where the call returns or raises
Finished(s, call, outcome, returned, table) ==
    [op |-> call.op, role_id |-> call.role_id, user_id |-> call.user_id,
     len |-> call.len, desired |-> call.desired, outcome |-> outcome,
     obj_in |-> call.obj_in, id |-> call.id, trace |-> call.trace, listed |-> call.listed,
     before |-> call.before,
     deleted |-> call.deleted, inserted |-> call.inserted,
     after |-> View(s, table), returned |-> returned]

\* a call inside `async with transaction(session)` raises: the scope rolls
\* back and re-raises, get_session rolls back again, the session is closed
RaiseInTransaction(s, call, exc, table) ==
    /\ last' = [last EXCEPT ![s] = Finished(s, call, exc, EmptyBag, table)]
    /\ sess' = [sess EXCEPT ![s] = Closed]
    /\ committed' = TransactionExit(s, TRUE)
    /\ pending' = [pending EXCEPT ![s] = NoWrites]

\* a call inside the scope returns: the session stays open in the scope
ReturnInTransaction(s, call, returned, table) ==
    /\ last' = [last EXCEPT ![s] = Finished(s, call, Returned, returned, table)]
    /\ sess' = [sess EXCEPT ![s] = Idle]
    /\ UNCHANGED <<committed, pending>>

\* a request opens its session (get_session) and enters transaction(session)
BeginTransaction(s) ==
    /\ sess[s].status = "closed"
    /\ calls < MaxCalls
    /\ sess' = [sess EXCEPT ![s] = Idle]
    /\ last' = [last EXCEPT ![s] = NoCall]
    /\ UNCHANGED <<committed, pending, calls, busVars, authVars>>

\* the body of transaction(session) ends without an exception
CommitTransaction(s) ==
    /\ sess[s].pc = "idle"
    /\ committed' = TransactionExit(s, FALSE)
    /\ pending' = [pending EXCEPT ![s] = NoWrites]
    /\ sess' = [sess EXCEPT ![s] = Closed]
    /\ last' = [last EXCEPT ![s] = NoCall]
    /\ UNCHANGED <<calls, busVars, authVars>>

\* the request ends without a commit: get_session closes the session and
\* the writes flushed in it are discarded
CloseSession(s) ==
    /\ sess[s].pc = "idle"
    /\ pending[s] # NoWrites
    /\ pending' = [pending EXCEPT ![s] = NoWrites]
    /\ sess' = [sess EXCEPT ![s] = Closed]
    /\ last' = [last EXCEPT ![s] = NoCall]
    /\ UNCHANGED <<committed, calls, busVars, authVars>>

(***************************************************************************)
(* RoleService.sync_permissions and its repositories.                      *)
(***************************************************************************)
\* PermissionRepository.get_by_ids
PermissionGetByIds(ids) == {p \in Permissions : p.id \in ids}

\* mutant of ValidationFails: the desired ids are not validated
ValidationNeverFails(desired, found) == FALSE

\* len(found_permissions) != len(desired_permission_ids)
ValidationFails(desired, found) == Cardinality(found) # Cardinality(desired)

\* missing_ids = desired_permission_ids - found_ids
MissingIds(desired, found) == desired \ {f.id : f \in found}

\* mutant of GetByRole: no assignment of the role is found
GetByRoleNone(rows, role_id) == {}

\* RolePermissionRepository.get_by_role
GetByRole(rows, role_id) == {rp \in rows : rp.role_id = role_id}

\* mutant of ToAdd: every desired id is added again
ToAddAll(desired, existing_ids) == SetToSeq(desired)

\* to_add = desired_permission_ids - existing_permission_ids; list(to_add)
ToAdd(desired, existing_ids) == SetToSeq(desired \ existing_ids)

\* mutant of ToRemove: every existing assignment is removed
ToRemoveAll(desired, existing_ids) == existing_ids

\* to_remove = existing_permission_ids - desired_permission_ids
ToRemove(desired, existing_ids) == existing_ids \ desired

\* [rp.id for rp in existing_assignments if rp.permission_id in to_remove]
AssignmentsToDelete(existing, to_remove) ==
    {rp.id : rp \in {e \in existing : e.permission_id \in to_remove}}

\* RolePermissionRepository.delete_by_ids
DeleteByIds(p, ids) == IF ids = {} THEN p ELSE DbDelete(p, "role_permissions", ids)

\* RolePermissionRepository.bulk_create: one new row per list element
BulkCreate(role_id, permission_ids, ids) ==
    {[id |-> ids[i], role_id |-> role_id, permission_id |-> permission_ids[i]] :
        i \in DOMAIN permission_ids}

\* role_permissions.role_id -> roles.id, role_permissions.permission_id ->
\* permissions.id; the table has no unique constraint on the pair
RolePermissionConstraintsHold(rows) ==
    \A r \in rows :
        /\ RepositoryGet(Roles, r.role_id) # {}
        /\ RepositoryGet(Permissions, r.permission_id) # {}

\* PermissionRepository.get_permissions_by_role: permissions JOIN
\* role_permissions, one result per join row
GetPermissionsByRole(rows, role_id) ==
    [p \in {q.id : q \in Permissions} |->
        Cardinality({rp \in GetByRole(rows, role_id) : rp.permission_id = p})]

\* sync_permissions is called; role = await self.get(role_id)
SyncPermissions(s, role_id, permission_ids) ==
    /\ sess[s].pc = "idle"
    /\ calls < MaxCalls
    /\ calls' = calls + 1
    /\ UNCHANGED <<busVars, authVars>>
    /\ LET call == [sess[s] EXCEPT !.op = "sync_permissions", !.role_id = role_id,
                                   !.len = Len(permission_ids),
                                   !.desired = ToSet(permission_ids),
                                   !.before = View(s, "role_permissions")]
       IN IF ServiceGet(Roles, role_id) # Returned
          THEN RaiseInTransaction(s, call, ServiceGet(Roles, role_id), "role_permissions")
          ELSE /\ sess' = [sess EXCEPT ![s] =
                             [call EXCEPT !.pc = IF call.desired = {} THEN "sp_read"
                                                 ELSE "sp_validate"]]
               /\ UNCHANGED <<committed, pending, last>>

\* "Validate all permissions exist"
SyncPermissionsValidate(s) ==
    /\ sess[s].pc = "sp_validate"
    /\ LET found == PermissionGetByIds(sess[s].desired)
       IN IF ValidationFails(sess[s].desired, found)
          THEN RaiseInTransaction(s, sess[s],
                                  HttpError(404, MissingIds(sess[s].desired, found)),
                                  "role_permissions")
          ELSE /\ sess' = [sess EXCEPT ![s].pc = "sp_read"]
               /\ UNCHANGED <<committed, pending, last>>
    /\ UNCHANGED <<calls, busVars, authVars>>

\* "Get existing role-permission assignments", "Calculate diff"
SyncPermissionsReadExisting(s) ==
    /\ sess[s].pc = "sp_read"
    /\ LET existing == GetByRole(View(s, "role_permissions"), sess[s].role_id)
           existing_ids == {rp.permission_id : rp \in existing}
           to_add == ToAdd(sess[s].desired, existing_ids)
           to_remove == ToRemove(sess[s].desired, existing_ids)
       IN sess' = [sess EXCEPT ![s].existing = existing,
                               ![s].to_add = to_add,
                               ![s].to_remove = to_remove,
                               ![s].pc = IF to_remove # {} THEN "sp_delete"
                                         ELSE IF to_add # <<>> THEN "sp_insert"
                                         ELSE "sp_refresh"]
    /\ UNCHANGED <<committed, pending, last, calls, busVars, authVars>>

\* "Remove permissions that are no longer needed"; the flush may fail
SyncPermissionsDelete(s, ok) ==
    /\ sess[s].pc = "sp_delete"
    /\ IF ~ok
       THEN RaiseInTransaction(s, sess[s], Error("DBAPIError"), "role_permissions")
       ELSE LET ids == AssignmentsToDelete(sess[s].existing, sess[s].to_remove)
            IN /\ pending' = [pending EXCEPT ![s] = DeleteByIds(@, ids)]
               /\ sess' = [sess EXCEPT
                            ![s].deleted = {r \in View(s, "role_permissions") : r.id \in ids},
                            ![s].pc = IF sess[s].to_add # <<>> THEN "sp_insert"
                                      ELSE "sp_refresh"]
               /\ UNCHANGED <<committed, last>>
    /\ UNCHANGED <<calls, busVars, authVars>>

\* "Add new permissions"; the flush may fail
SyncPermissionsInsert(s, ok) ==
    /\ sess[s].pc = "sp_insert"
    /\ LET rows == BulkCreate(sess[s].role_id, sess[s].to_add,
                              NewIds(UsedIds("role_permissions"),
                                     [i \in DOMAIN sess[s].to_add |->
                                         <<sess[s].role_id, sess[s].to_add[i]>>]))
       IN IF ~ok
          THEN RaiseInTransaction(s, sess[s], Error("DBAPIError"), "role_permissions")
          ELSE IF ~RolePermissionConstraintsHold(rows)
          THEN RaiseInTransaction(s, sess[s], Error("IntegrityError"), "role_permissions")
          ELSE /\ pending' = [pending EXCEPT ![s] = DbInsert(@, "role_permissions", rows)]
               /\ sess' = [sess EXCEPT ![s].inserted = rows, ![s].pc = "sp_refresh"]
               /\ UNCHANGED <<committed, last>>
    /\ UNCHANGED <<calls, busVars, authVars>>

\* "Get updated permissions and return"
SyncPermissionsRefresh(s, ok) ==
    /\ sess[s].pc = "sp_refresh"
    /\ IF ~ok
       THEN RaiseInTransaction(s, sess[s], Error("DBAPIError"), "role_permissions")
       ELSE ReturnInTransaction(s, sess[s],
                GetPermissionsByRole(View(s, "role_permissions"), sess[s].role_id),
                "role_permissions")
    /\ UNCHANGED <<calls, busVars, authVars>>

(***************************************************************************)
(* RoleService.sync_user_to_roles and its repositories.                    *)
(***************************************************************************)
\* RoleRepository.get_by_ids
RoleGetByIds(ids) == {r \in Roles : r.id \in ids}

\* UserRoleRepository.get_by_user builds its query from UserRole.user.id.
\* The UserRole model has the fields user_id and role_id and no attribute
\* "user", so evaluating the expression raises AttributeError before any
\* statement reaches the store.
UserRoleGetByUser(rows, user_id) == Error("AttributeError")

\* sync_user_to_roles is called; the desired roles are validated
SyncUserToRoles(s, user_id, role_ids) ==
    /\ sess[s].pc = "idle"
    /\ calls < MaxCalls
    /\ calls' = calls + 1
    /\ UNCHANGED <<busVars, authVars>>
    /\ LET call == [sess[s] EXCEPT !.op = "sync_user_to_roles", !.user_id = user_id,
                                   !.len = Len(role_ids),
                                   !.desired = ToSet(role_ids),
                                   !.before = View(s, "user_roles")]
           found == RoleGetByIds(call.desired)
       IN IF call.desired # {} /\ ValidationFails(call.desired, found)
          THEN RaiseInTransaction(s, call, HttpError(404, MissingIds(call.desired, found)),
                                  "user_roles")
          ELSE /\ sess' = [sess EXCEPT ![s] = [call EXCEPT !.pc = "su_read"]]
               /\ UNCHANGED <<committed, pending, last>>

\* existing_assignments = await self.user_role_repository.get_by_user(user_id).
\* The statements after it (diff, delete_by_ids, bulk_create, the refreshing
\* get_by_user) are never reached.
SyncUserToRolesReadExisting(s) ==
    /\ sess[s].pc = "su_read"
    /\ UserRoleGetByUser(View(s, "user_roles"), sess[s].user_id) # Returned
    /\ RaiseInTransaction(s, sess[s],
                          UserRoleGetByUser(View(s, "user_roles"), sess[s].user_id),
                          "user_roles")
    /\ UNCHANGED <<calls, busVars, authVars>>

(***************************************************************************)
(* POST /auth/register: UserService.create and the route's commit.         *)
(***************************************************************************)
\* UserRepository.check_unique: the users with this username or this email,
\* read with one_or_none(), which raises MultipleResultsFound for two rows
CheckUnique(rows, username, email, exclude_id) ==
    LET found == {u \in rows : /\ (u.username = username \/ u.email = email)
                               /\ (exclude_id = NoId \/ u.id # exclude_id)}
    IN IF Cardinality(found) > 1 THEN "MultipleResultsFound"
       ELSE IF \E u \in found : u.username = username THEN "Username exists"
       ELSE IF \E u \in found : u.email = email THEN "Email exists"
       ELSE "unique"

\* users.username and users.email are declared unique=True
UserConstraintsHold(rows, row) ==
    \A u \in rows : u.username # row.username /\ u.email # row.email

\* the unique constraints of a table, each a set of columns: username and
\* email of User, name of Role, (resource, action) of Permission
UniqueConstraints(t) ==
    IF t = "users" THEN {{"username"}, {"email"}}
    ELSE IF t = "roles" THEN {{"name"}}
    ELSE {{"resource", "action"}}

\* the row shares the columns of one unique constraint with a row of `rows`
Collides(rows, t, row) ==
    \E key \in UniqueConstraints(t) : \E r \in rows : \A f \in key : r[f] = row[f]

\* the INSERT of session s waits: another session holds a flushed,
\* uncommitted row with the same unique key, and the unique index makes the
\* statement wait for that transaction to end
Blocked(s, t, row) ==
    \E o \in Sessions \ {s} : Collides(pending[o].ins[t], t, row)

\* the route raises: get_session rolls the session back and closes it
RaiseInRequest(s, call, exc) ==
    /\ last' = [last EXCEPT ![s] = Finished(s, call, exc, EmptyBag, "user_roles")]
    /\ sess' = [sess EXCEPT ![s] = Closed]
    /\ pending' = [pending EXCEPT ![s] = NoWrites]
    /\ UNCHANGED committed

\* the request arrives; service.create runs UserService.before_create
Register(s, user_in) ==
    /\ sess[s].status = "closed"
    /\ calls < MaxCalls
    /\ calls' = calls + 1
    /\ UNCHANGED <<busVars, authVars>>
    /\ LET call == [Idle EXCEPT !.op = "register", !.user_in = user_in,
                                !.before = View(s, "user_roles")]
           unique == CheckUnique(View(s, "users"), user_in.username, user_in.email, NoId)
       IN IF unique = "MultipleResultsFound"
          THEN RaiseInRequest(s, call, Error(unique))
          ELSE IF unique # "unique"
          THEN RaiseInRequest(s, call, HttpError(409, {unique}))
          ELSE /\ sess' = [sess EXCEPT ![s] = [call EXCEPT !.pc = "reg_create"]]
               /\ last' = [last EXCEPT ![s] = NoCall]
               /\ UNCHANGED <<committed, pending>>

\* BaseRepository.create (add, flush, refresh), then after_create, which
\* UserService does not override: BaseService.after_create does nothing.
\* Neither BaseService.create nor the route catches the IntegrityError of
\* the flush.
RegisterCreate(s, ok) ==
    /\ sess[s].pc = "reg_create"
    /\ LET row == [id |-> NewId(UsedIds("users"), <<sess[s].user_in.username>>),
                   username |-> sess[s].user_in.username,
                   email |-> sess[s].user_in.email,
                   deleted_at |-> FALSE]
       IN /\ ~Blocked(s, "users", row)
          /\ IF ~ok
             THEN RaiseInRequest(s, sess[s], Error("DBAPIError"))
             ELSE IF ~UserConstraintsHold(View(s, "users"), row)
             THEN RaiseInRequest(s, sess[s], Error("IntegrityError"))
             ELSE /\ pending' = [pending EXCEPT ![s] = DbInsert(@, "users", {row})]
                  /\ sess' = [sess EXCEPT ![s].user_id = row.id, ![s].pc = "reg_commit"]
                  /\ UNCHANGED <<committed, last>>
    /\ UNCHANGED <<calls, busVars, authVars>>

\* await session.commit(); return result
RegisterCommit(s, ok) ==
    /\ sess[s].pc = "reg_commit"
    /\ IF ~ok
       THEN RaiseInRequest(s, sess[s], Error("DBAPIError"))
       ELSE /\ committed' = DbCommit(s)
            /\ pending' = [pending EXCEPT ![s] = NoWrites]
            /\ last' = [last EXCEPT ![s] =
                          Finished(s, sess[s], Returned, EmptyBag, "user_roles")]
            /\ sess' = [sess EXCEPT ![s] = Closed]
    /\ UNCHANGED <<calls, busVars, authVars>>

(***************************************************************************)
(* BaseService.create of UserService, RoleService and PermissionService:   *)
(* before_create, BaseRepository.create, after_create.                     *)
(***************************************************************************)
\* the role names and the permission resources and actions a caller creates
RoleNames == {"admin", "editor"}

Resources == {"users", "roles"}

Actions == {"read", "write"}

\* the payloads of Service.create: UserCreateSchema, RoleCreateSchema,
\* PermissionCreateSchema
CreateInputs ==
    {[NoObj EXCEPT !.table = "users", !.username = u, !.email = e] :
        u \in Usernames, e \in Emails}
    \cup {[NoObj EXCEPT !.table = "roles", !.name = n] : n \in RoleNames}
    \cup {[NoObj EXCEPT !.table = "permissions", !.resource = r, !.action = a] :
            r \in Resources, a \in Actions}

\* the rows of table t written before the application serves requests
Seeded(t) == IF t = "roles" THEN Roles ELSE IF t = "permissions" THEN Permissions ELSE {}

\* the columns that the before_create hook of the table's service compares
UniqueFields(t) == UNION UniqueConstraints(t)

\* BaseRepository.exists(**filters): a row that matches every filter
Exists(rows, filters, obj_in) ==
    \E r \in rows : \A f \in filters : r[f] = obj_in[f]

\* mutant of BeforeCreate: the hook accepts every payload
BeforeCreateAccepts(s, obj_in) == "unique"

\* the before_create hook of the table's service: "unique", or the detail
\* of the Conflict it raises, or the exception of check_unique
BeforeCreate(s, obj_in) ==
    IF obj_in.table = "users"
    THEN CheckUnique(View(s, "users"), obj_in.username, obj_in.email, NoId)
    ELSE IF \/ Exists(Seeded(obj_in.table), UniqueFields(obj_in.table), obj_in)
            \/ Exists(View(s, obj_in.table), UniqueFields(obj_in.table), obj_in)
    THEN "already exists"
    ELSE "unique"

\* self.model(**obj_in) with the id that BaseModel gives it
NewRow(obj_in, id) ==
    IF obj_in.table = "users"
    THEN [id |-> id, username |-> obj_in.username, email |-> obj_in.email,
          deleted_at |-> FALSE]
    ELSE IF obj_in.table = "roles"
    THEN [id |-> id, name |-> obj_in.name]
    ELSE [id |-> id, resource |-> obj_in.resource, action |-> obj_in.action]

\* the unique constraints of table t admit the row in session s
ConstraintsHold(s, t, row) ==
    ~Collides(Seeded(t), t, row) /\ ~Collides(View(s, t), t, row)

\* the row that BaseRepository.create builds from the payload
CreatedRow(obj_in) ==
    NewRow(obj_in, NewId(UsedIds(obj_in.table), <<obj_in.table>>))

\* service.create(obj_in) is called inside transaction(session): before_create
ServiceCreate(s, obj_in) ==
    /\ sess[s].pc = "idle"
    /\ calls < MaxCalls
    /\ calls' = calls + 1
    /\ UNCHANGED <<busVars, authVars>>
    /\ LET call == [Idle EXCEPT !.op = "create", !.obj_in = obj_in,
                                !.trace = <<"before_create">>,
                                !.before = View(s, obj_in.table)]
           unique == BeforeCreate(s, obj_in)
       IN IF unique = "MultipleResultsFound"
          THEN RaiseInTransaction(s, call, Error(unique), obj_in.table)
          ELSE IF unique # "unique"
          THEN RaiseInTransaction(s, call, HttpError(409, {unique}), obj_in.table)
          ELSE /\ sess' = [sess EXCEPT ![s] = [call EXCEPT !.pc = "create_flush"]]
               /\ UNCHANGED <<committed, pending, last>>

\* obj_dict = obj_in.model_dump(); BaseRepository.create: add, flush, refresh.
\* BaseService.create catches nothing, so the IntegrityError of the flush
\* leaves the service as it is.
ServiceCreateFlush(s, ok) ==
    /\ sess[s].pc = "create_flush"
    /\ LET t == sess[s].obj_in.table
           row == CreatedRow(sess[s].obj_in)
           call == [sess[s] EXCEPT !.trace = Append(@, "repository.create")]
       IN /\ ~Blocked(s, t, row)
          /\ IF ~ok
             THEN RaiseInTransaction(s, call, Error("DBAPIError"), t)
             ELSE IF ~ConstraintsHold(s, t, row)
             THEN RaiseInTransaction(s, call, Error("IntegrityError"), t)
             ELSE /\ pending' = [pending EXCEPT ![s] = DbInsert(@, t, {row})]
                  /\ committed' = RepositoryFlush(s, DbInsert(pending[s], t, {row}))
                  /\ sess' = [sess EXCEPT ![s] = [call EXCEPT !.inserted = {row},
                                                             !.pc = "create_return"]]
                  /\ UNCHANGED last
    /\ UNCHANGED <<calls, busVars, authVars>>

\* mutant of AfterCreate: the hook is not invoked
AfterCreateSkipped(trace) == trace

\* await self.after_create(obj): the hook is invoked with the flushed entity
AfterCreate(trace) == Append(trace, "after_create")

\* await self.after_create(obj), which no service overrides; return obj
ServiceCreateReturn(s) ==
    /\ sess[s].pc = "create_return"
    /\ ReturnInTransaction(s, [sess[s] EXCEPT !.trace = AfterCreate(@)], EmptyBag,
                           sess[s].obj_in.table)
    /\ UNCHANGED <<calls, busVars, authVars>>

(***************************************************************************)
(* The POST route that create_crud_router generates: get_session opens the *)
(* session, the route returns what service.create returns, get_session     *)
(* closes the session.  Neither of them commits.                           *)
(***************************************************************************)
\* the route raises: get_session rolls the session back and closes it
RaiseInRoute(s, call, exc, table) ==
    /\ last' = [last EXCEPT ![s] = Finished(s, call, exc, EmptyBag, table)]
    /\ sess' = [sess EXCEPT ![s] = Closed]
    /\ pending' = [pending EXCEPT ![s] = NoWrites]
    /\ UNCHANGED committed

\* POST /: service = service_factory(session); service.create(obj_in) runs
\* before_create
CrudCreate(s, obj_in) ==
    /\ sess[s].status = "closed"
    /\ calls < MaxCalls
    /\ calls' = calls + 1
    /\ UNCHANGED <<busVars, authVars>>
    /\ LET call == [Idle EXCEPT !.op = "crud_create", !.obj_in = obj_in,
                                !.before = View(s, obj_in.table)]
           unique == BeforeCreate(s, obj_in)
       IN IF unique = "MultipleResultsFound"
          THEN RaiseInRoute(s, call, Error(unique), obj_in.table)
          ELSE IF unique # "unique"
          THEN RaiseInRoute(s, call, HttpError(409, {unique}), obj_in.table)
          ELSE /\ sess' = [sess EXCEPT ![s] = [call EXCEPT !.pc = "crud_flush"]]
               /\ last' = [last EXCEPT ![s] = NoCall]
               /\ UNCHANGED <<committed, pending>>

\* BaseRepository.create: add, flush, refresh
CrudCreateFlush(s, ok) ==
    /\ sess[s].pc = "crud_flush"
    /\ LET t == sess[s].obj_in.table
           row == CreatedRow(sess[s].obj_in)
       IN /\ ~Blocked(s, t, row)
          /\ IF ~ok
             THEN RaiseInRoute(s, sess[s], Error("DBAPIError"), t)
             ELSE IF ~ConstraintsHold(s, t, row)
             THEN RaiseInRoute(s, sess[s], Error("IntegrityError"), t)
             ELSE /\ pending' = [pending EXCEPT ![s] = DbInsert(@, t, {row})]
                  /\ sess' = [sess EXCEPT ![s].inserted = {row}, ![s].pc = "crud_respond"]
                  /\ UNCHANGED <<committed, last>>
    /\ UNCHANGED <<calls, busVars, authVars>>

\* the committed store after the route has returned: the route returns the
\* object and `async with AsyncSession(...)` in get_session closes the
\* session, which discards what was flushed and not committed
RouteExit(s) == committed

\* after_create; the route returns and the request ends
CrudCreateRespond(s) ==
    /\ sess[s].pc = "crud_respond"
    /\ last' = [last EXCEPT ![s] =
                  Finished(s, sess[s], Returned, EmptyBag, sess[s].obj_in.table)]
    /\ committed' = RouteExit(s)
    /\ pending' = [pending EXCEPT ![s] = NoWrites]
    /\ sess' = [sess EXCEPT ![s] = Closed]
    /\ UNCHANGED <<calls, busVars, authVars>>

(***************************************************************************)
(* SimpleEventBus: subscribe and publish.                                  *)
(***************************************************************************)
\* subscribe calls per behaviour
MaxSubs == 3

\* DomainEvent and the integration event of core/events/contracts.py
EventTypes == {"DomainEvent", "UserSavedIntegrationEvent"}

Events == {[type |-> t, user_id |-> "u1"] : t \in EventTypes}

\* assign_default_roles and a second subscriber
Handlers == {"assign_default_roles", "other_handler"}

\* the session argument of publish: a request's session, or None
SessionArgs == {"A", "None"}

\* what awaiting a handler does: it returns, raises an Exception, or raises
\* a BaseException that is no Exception (asyncio.CancelledError)
HandlerOutcomes == {"return", "Exception", "BaseException"}

NoEvent == [type |-> "none", user_id |-> ""]

\* how publish ended: it returned, or raised the exception of handler "at"
NoOutcome == [kind |-> "none", handler |-> "", at |-> 0]

PublishReturned == [kind |-> "returned", handler |-> "", at |-> 0]

NoPublish == [pc |-> "idle", event |-> NoEvent, session |-> "None", raise_on_error |-> TRUE,
              handlers |-> <<>>, h |-> 1, errors |-> <<>>, invoked |-> <<>>,
              nsubs |-> 0, outcome |-> NoOutcome]

\* mutant of Subscribe's append: the handler is put at the front
AppendFirst(list, handler) == <<handler>> \o list

\* self._handlers[event_type].append(handler)
AppendHandler(list, handler) == Append(list, handler)

\* SimpleEventBus.subscribe
Subscribe(event_type, handler) ==
    /\ Len(subscribed) < MaxSubs
    /\ handlers' = [handlers EXCEPT ![event_type] = AppendHandler(@, handler)]
    /\ subscribed' = Append(subscribed, [type |-> event_type, handler |-> handler])
    /\ UNCHANGED <<pub, storeVars, authVars>>

\* handlers = list(self._handlers.get(type(event), [])); errors = []
Publish(event, session, raise_on_error) ==
    /\ pub.pc \in {"idle", "done"}
    /\ pub' = [NoPublish EXCEPT !.pc = "loop", !.event = event, !.session = session,
                                !.raise_on_error = raise_on_error,
                                !.handlers = handlers[event.type],
                                !.nsubs = Len(subscribed)]
    /\ UNCHANGED <<handlers, subscribed, storeVars, authVars>>

\* mutant of BreaksLoop: the loop goes on after a failed handler
NeverBreaksLoop(raise_on_error) == FALSE

\* if raise_on_error: break
BreaksLoop(raise_on_error) == raise_on_error

\* one iteration of "for h in handlers": await h(event, session) inside
\* try/except Exception
PublishInvoke(outcome) ==
    /\ pub.pc = "loop"
    /\ pub.h <= Len(pub.handlers)
    /\ LET h == pub.handlers[pub.h]
           e == [kind |-> outcome, handler |-> h, at |-> pub.h]
           invoked == Append(pub.invoked, [handler |-> h, event |-> pub.event,
                                           session |-> pub.session, outcome |-> outcome])
       IN pub' = IF outcome = "return"
                 THEN [pub EXCEPT !.invoked = invoked, !.h = @ + 1]
                 ELSE IF outcome = "Exception"
                 THEN [pub EXCEPT !.invoked = invoked, !.errors = Append(@, e),
                                  !.h = @ + 1,
                                  !.pc = IF BreaksLoop(pub.raise_on_error) THEN "after_loop"
                                         ELSE "loop"]
                 ELSE [pub EXCEPT !.invoked = invoked, !.pc = "done", !.outcome = e]
    /\ UNCHANGED <<handlers, subscribed, storeVars, authVars>>

\* mutant of RaisesFirstError: publish swallows the recorded errors
RaisesNoError(errors, raise_on_error) == FALSE

\* mutant of RaisesFirstError: a recorded error is raised in either mode
RaisesRecordedError(errors, raise_on_error) == errors # <<>>

\* if errors and raise_on_error
RaisesFirstError(errors, raise_on_error) == errors # <<>> /\ raise_on_error

\* if errors and raise_on_error: raise errors[0]
PublishEnd ==
    /\ \/ pub.pc = "after_loop"
       \/ pub.pc = "loop" /\ pub.h > Len(pub.handlers)
    /\ pub' = [pub EXCEPT !.pc = "done",
                          !.outcome = IF RaisesFirstError(pub.errors, pub.raise_on_error)
                                      THEN pub.errors[1] ELSE PublishReturned]
    /\ UNCHANGED <<handlers, subscribed, storeVars, authVars>>

(***************************************************************************)
(* A publisher inside a transaction scope (transaction, transactional,     *)
(* DB.transaction): it persists an entity, publishes an event with the     *)
(* scope's session, and the scope commits or rolls back.                   *)
(***************************************************************************)
\* the scope is entered and the body persists a user (BaseRepository.create:
\* add, flush, refresh)
PublisherPersist(s, user_in, ok) ==
    /\ sess[s].status = "closed"
    /\ calls < MaxCalls
    /\ calls' = calls + 1
    /\ UNCHANGED <<busVars, authVars>>
    /\ LET row == [id |-> NewId(UsedIds("users"), <<user_in.username>>),
                   username |-> user_in.username,
                   email |-> user_in.email,
                   deleted_at |-> FALSE]
           call == [Idle EXCEPT !.op = "publisher", !.user_in = user_in,
                                !.before = View(s, "users")]
       IN IF ~ok
          THEN RaiseInTransaction(s, call, Error("DBAPIError"), "users")
          ELSE IF ~UserConstraintsHold(View(s, "users"), row)
          THEN RaiseInTransaction(s, call, Error("IntegrityError"), "users")
          ELSE /\ pending' = [pending EXCEPT ![s] = DbInsert(@, "users", {row})]
               /\ sess' = [sess EXCEPT ![s] = [call EXCEPT !.user_id = row.id,
                                                          !.inserted = {row},
                                                          !.pc = "pb_publish"]]
               /\ last' = [last EXCEPT ![s] = NoCall]
               /\ UNCHANGED committed

\* the body awaits bus.publish(event, session=session, raise_on_error=...)
PublisherPublish(s, event, raise_on_error) ==
    /\ sess[s].pc = "pb_publish"
    /\ pub.pc \in {"idle", "done"}
    /\ pub' = [NoPublish EXCEPT !.pc = "loop", !.event = event, !.session = s,
                                !.raise_on_error = raise_on_error,
                                !.handlers = handlers[event.type],
                                !.nsubs = Len(subscribed)]
    /\ sess' = [sess EXCEPT ![s].pc = "pb_wait"]
    /\ UNCHANGED <<committed, pending, last, calls, handlers, subscribed, authVars>>

\* publish has ended.  When it returned, the scope commits.  When it raised,
\* the exception leaves the body: "except Exception" rolls back and
\* re-raises; a BaseException passes the except clause and the session is
\* closed without commit.  The frame of the publish call is gone.
PublisherLeaveScope(s) ==
    /\ sess[s].pc = "pb_wait"
    /\ pub.pc = "done"
    /\ IF pub.outcome = PublishReturned
       THEN /\ committed' = TransactionExit(s, FALSE)
            /\ pending' = [pending EXCEPT ![s] = NoWrites]
            /\ last' = [last EXCEPT ![s] = Finished(s, sess[s], Returned, EmptyBag, "users")]
            /\ sess' = [sess EXCEPT ![s] = Closed]
       ELSE RaiseInTransaction(s, sess[s], Error(pub.outcome.kind), "users")
    /\ pub' = NoPublish
    /\ UNCHANGED <<calls, handlers, subscribed, authVars>>

(***************************************************************************)
(* core/security.py: JWT access and refresh tokens.  Time is counted in    *)
(* minutes.                                                                *)
(***************************************************************************)
\* last instant the clock reaches
MaxTime == 3

\* longest expires_delta, in minutes, a caller passes
MaxTtl == 2

\* timedelta(minutes=15): default expiry of an access token
DefaultAccessMinutes == 15

\* timedelta(days=7): default expiry of a refresh token
DefaultRefreshDays == 7

\* settings.jwt_access_token_expire_minutes
AccessTokenExpireMinutes == 15

\* settings.jwt_refresh_token_expire_days
RefreshTokenExpireDays == 3

\* timedelta(days=d) in minutes
Days(d) == d * 24 * 60

\* settings.jwt_secret_key, and the key of someone who does not know it
SecretKey == "jwt_secret_key"

OtherKey == "other_key"

TokenTypes == {"access", "refresh"}

\* expires_delta: None is {}, timedelta(minutes=n) is {n}
ExpiresDeltaInputs == {{}} \cup {{n} : n \in 0..MaxTtl}

Minutes(expires_delta) == CHOOSE n \in expires_delta : TRUE

\* "if expires_delta": None and timedelta(0) are both false
Truthy(expires_delta) == expires_delta # {} /\ expires_delta # {0}

\* str(user.id): the text of a UUID
Str(id) == [repr |-> "uuid", of |-> id]

\* a payload without "sub", a subject that is a decimal number, and one that
\* is some other text
NoSub == [repr |-> "none", of |-> NoId]

NumberSub == [repr |-> "int", of |-> NoId]

TextSub == [repr |-> "text", of |-> NoId]

\* the user ids in tokens: two stored users and one that is not stored
AliceId == [of |-> <<"alice">>, n |-> 1]

BobId == [of |-> <<"bob">>, n |-> 1]

CarolId == [of |-> <<"carol">>, n |-> 1]

SubjectInputs == {Str(AliceId), Str(BobId), Str(CarolId), NoSub, NumberSub, TextSub}

\* the caller's claims: a subject, and possibly a "type" entry of its own
DataInputs == {[sub |-> s, type |-> ty] : s \in SubjectInputs, ty \in {"none", "refresh"}}

NoPayload == [sub |-> NoSub, type |-> "none", exp |-> 0, iat |-> 0]

\* jwt.encode: the payload signed with the key
JwtEncode(payload, key) == [wellformed |-> TRUE, payload |-> payload, key |-> key]

\* a string that is no JWT
Garbage == [wellformed |-> FALSE, payload |-> NoPayload, key |-> ""]

\* a token with the same payload signed with another key
Forge(token) == [token EXCEPT !.key = OtherKey]

\* jwt.decode: verifies the form, the signature, then "exp" against the clock
JwtDecode(token, key, t) ==
    IF ~token.wellformed THEN "DecodeError"
    ELSE IF token.key # key THEN "InvalidSignatureError"
    ELSE IF token.payload.exp <= t THEN "ExpiredSignatureError"
    ELSE "payload"

\* _create_token
CreateToken(data, token_type, expires_delta, t) ==
    LET expire == IF Truthy(expires_delta)
                  THEN t + Minutes(expires_delta)
                  ELSE t + (IF token_type = "access" THEN DefaultAccessMinutes
                            ELSE Days(DefaultRefreshDays))
    IN JwtEncode([sub |-> data.sub, type |-> token_type, exp |-> expire, iat |-> t],
                 SecretKey)

CreateAccessToken(data, expires_delta, t) == CreateToken(data, "access", expires_delta, t)

CreateRefreshToken(data, expires_delta, t) == CreateToken(data, "refresh", expires_delta, t)

\* results of the token operations
AuthResult(kind, status, detail) ==
    [kind |-> kind, status |-> status, detail |-> detail, payload |-> NoPayload]

Unauthorized(detail) == AuthResult("HTTPException", 401, detail)

Decoded(payload) == [AuthResult("payload", 200, "") EXCEPT !.payload = payload]

\* f"{expected_type.capitalize()} token expired"
ExpiredDetail(expected_type) ==
    IF expected_type = "access" THEN "Access token expired" ELSE "Refresh token expired"

\* f"Invalid token type. Expected {expected_type}"
InvalidTypeDetail(expected_type) ==
    IF expected_type = "access" THEN "Invalid token type. Expected access"
    ELSE "Invalid token type. Expected refresh"

\* mutant of TypeDiffers: the type tag is not compared
TypeNeverDiffers(payload, expected_type) == FALSE

\* payload.get("type") != expected_type
TypeDiffers(payload, expected_type) == payload.type # expected_type

\* _decode_token
DecodeToken(token, expected_type, t) ==
    LET verified == JwtDecode(token, SecretKey, t)
    IN IF verified = "ExpiredSignatureError" THEN Unauthorized(ExpiredDetail(expected_type))
       ELSE IF verified # "payload" THEN Unauthorized("Could not validate credentials")
       ELSE IF TypeDiffers(token.payload, expected_type)
       THEN Unauthorized(InvalidTypeDetail(expected_type))
       ELSE Decoded(token.payload)

DecodeAccessToken(token, t) == DecodeToken(token, "access", t)

\* a decoder that refuses a refresh token once it has been accepted
DecodeRefreshTokenOnce(token, t) ==
    IF \E k \in 1..2 : <<token, k>> \in auth.accepted
    THEN Unauthorized("Could not validate credentials")
    ELSE DecodeToken(token, "refresh", t)

DecodeRefreshToken(token, t) == DecodeToken(token, "refresh", t)

(***************************************************************************)
(* UserService.create_tokens_for_user / refresh_user_tokens and            *)
(* get_current_user, used by a client that holds tokens.                   *)
(***************************************************************************)
NoMade ==
    [op |-> "none", token_type |-> "none", data |-> [sub |-> NoSub, type |-> "none"],
     expires_delta |-> {}, at |-> 0, user_id |-> NoId]

NoUse ==
    [op |-> "none", presented |-> Garbage, at |-> 0, result |-> AuthResult("none", 0, ""),
     issued |-> {}, user |-> {}]

\* copies: tokens the client once held and that were kept, by it or by whoever
\* read them; accepted: the kept refresh tokens that refresh_user_tokens has
\* accepted, each with 1 for its first and 2 for a later acceptance;
\* logged_out: POST /auth/logout has been requested
NoAuth ==
    [made |-> NoMade, held |-> {}, use |-> NoUse,
     copies |-> {}, accepted |-> {}, logged_out |-> FALSE]

\* the users stored when the token operations run: alice, and bob, who has
\* been soft-deleted; no user has the id of carol
StoredUsers ==
    {[id |-> AliceId, username |-> "alice", email |-> "a@x.io", deleted_at |-> FALSE],
     [id |-> BobId, username |-> "bob", email |-> "b@x.io", deleted_at |-> TRUE]}

\* UUID(text): the id, or a failure
ParseUuid(sub) ==
    IF sub.repr = "none" THEN "TypeError"
    ELSE IF sub.repr = "uuid" THEN "uuid" ELSE "ValueError"

\* int(text): only the text of a decimal number converts
ParseInt(sub) == IF sub.repr = "int" THEN "int" ELSE "ValueError"

\* UserService.create_tokens_for_user
CreateTokensForUser(user, t) ==
    {CreateAccessToken([sub |-> Str(user.id), type |-> "none"],
                       {AccessTokenExpireMinutes}, t),
     CreateRefreshToken([sub |-> Str(user.id), type |-> "none"],
                        {Days(RefreshTokenExpireDays)}, t)}

\* the tokens a client can present: the ones it holds, copies of them signed
\* with another key, and text that is no token
Presentable ==
    LET have == auth.held \cup auth.copies
    IN have \cup {Forge(x) : x \in have} \cup {Garbage}

\* a caller makes a token with create_access_token or create_refresh_token
\* and hands it to a client that holds none
IssueToken(token_type, data, expires_delta) ==
    /\ auth.made.op = "none"
    /\ auth' = [made |-> [op |-> "create_token", token_type |-> token_type, data |-> data,
                          expires_delta |-> expires_delta, at |-> now, user_id |-> NoId],
                held |-> {IF token_type = "access"
                          THEN CreateAccessToken(data, expires_delta, now)
                          ELSE CreateRefreshToken(data, expires_delta, now)},
                use |-> NoUse, copies |-> {}, accepted |-> {}, logged_out |-> FALSE]
    /\ UNCHANGED <<now, storeVars, busVars>>

\* POST /auth/login of a user that authenticate_user accepts, by a client
\* that holds no token
Login(user) ==
    /\ auth.made.op = "none"
    /\ user \in committed["users"]
    /\ ~user.deleted_at
    /\ auth' = [made |-> [NoMade EXCEPT !.op = "create_tokens_for_user", !.at = now,
                                        !.user_id = user.id],
                held |-> CreateTokensForUser(user, now),
                use |-> NoUse, copies |-> {}, accepted |-> {}, logged_out |-> FALSE]
    /\ UNCHANGED <<now, storeVars, busVars>>

\* a minute passes
Tick ==
    /\ now < MaxTime
    /\ now' = now + 1
    /\ UNCHANGED <<auth, storeVars, busVars>>

\* decode_access_token or decode_refresh_token is applied to a token
Decode(expected_type, token) ==
    /\ token \in Presentable
    /\ auth' = [auth EXCEPT !.use =
                  [NoUse EXCEPT !.op = expected_type, !.presented = token, !.at = now,
                                !.result = IF expected_type = "access"
                                           THEN DecodeAccessToken(token, now)
                                           ELSE DecodeRefreshToken(token, now)]]
    /\ UNCHANGED <<now, storeVars, busVars>>

\* mutant of IsSoftDeleted: deleted_at is not looked at
NeverSoftDeleted(user) == FALSE

\* user.deleted_at is not None
IsSoftDeleted(user) == user.deleted_at

\* the record of one more acceptance of a kept refresh token
Accept(accepted, token) ==
    IF token \notin auth.copies THEN accepted
    ELSE accepted \cup {IF <<token, 1>> \in accepted THEN <<token, 2>> ELSE <<token, 1>>}

\* UserService.refresh_user_tokens.  The response replaces the client's
\* cookies by the new pair.
RefreshUserTokens(token) ==
    /\ token \in Presentable
    /\ LET decoded == DecodeRefreshToken(token, now)
           sub == decoded.payload.sub
           found == RepositoryGet(committed["users"], sub.of)
           use == [NoUse EXCEPT !.op = "refresh_user_tokens", !.presented = token,
                                !.at = now]
       IN IF decoded.kind # "payload"
          THEN auth' = [auth EXCEPT !.use = [use EXCEPT !.result = decoded]]
          ELSE IF ParseUuid(sub) # "uuid"
          THEN auth' = [auth EXCEPT !.use =
                          [use EXCEPT !.result = AuthResult(ParseUuid(sub), 500, "")]]
          ELSE IF found = {}
          THEN auth' = [auth EXCEPT !.use =
                          [use EXCEPT !.result = Unauthorized("User not found")]]
          ELSE IF \E u \in found : IsSoftDeleted(u)
          THEN auth' = [auth EXCEPT !.use =
                          [use EXCEPT !.result = Unauthorized("User not found or invalid")]]
          ELSE LET user == CHOOSE u \in found : TRUE
               IN auth' = [auth EXCEPT
                             !.held = CreateTokensForUser(user, now),
                             !.accepted = Accept(@, token),
                             !.use = [use EXCEPT !.result = AuthResult("tokens", 200, ""),
                                                 !.issued = CreateTokensForUser(user, now)]]
    /\ UNCHANGED <<now, storeVars, busVars>>

\* get_current_user (_get_user_from_token with strict=True).  repo.get is
\* reached only with an int, which equals the UUID of no row: the lookup
\* finds nothing or the driver rejects the parameter.
GetCurrentUser(token, rejected) ==
    /\ token \in Presentable
    /\ LET decoded == DecodeAccessToken(token, now)
           sub == decoded.payload.sub
           use == [NoUse EXCEPT !.op = "get_current_user", !.presented = token, !.at = now]
       IN auth' = [auth EXCEPT !.use =
            [use EXCEPT !.result =
                IF decoded.kind # "payload" THEN decoded
                ELSE IF sub = NoSub THEN Unauthorized("Could not validate credentials")
                ELSE IF ParseInt(sub) # "int" THEN Unauthorized("Invalid token format")
                ELSE IF rejected THEN AuthResult("DBAPIError", 500, "")
                ELSE Unauthorized("User not found")]]
    /\ UNCHANGED <<now, storeVars, busVars>>

\* the tokens the client holds are kept somewhere: nothing of the server is
\* involved
KeepCopy ==
    /\ auth.held \ auth.copies # {}
    /\ auth' = [auth EXCEPT !.copies = @ \cup auth.held]
    /\ UNCHANGED <<now, storeVars, busVars>>

\* POST /auth/logout: get_current_user, then response.delete_cookie; the
\* server keeps no record of the tokens it issued and changes none
Logout(token, rejected) ==
    /\ token \in Presentable
    /\ LET decoded == DecodeAccessToken(token, now)
           sub == decoded.payload.sub
           use == [NoUse EXCEPT !.op = "logout", !.presented = token, !.at = now]
       IN auth' = [auth EXCEPT
            !.logged_out = TRUE,
            !.use = [use EXCEPT !.result =
                IF decoded.kind # "payload" THEN decoded
                ELSE IF sub = NoSub THEN Unauthorized("Could not validate credentials")
                ELSE IF ParseInt(sub) # "int" THEN Unauthorized("Invalid token format")
                ELSE IF rejected THEN AuthResult("DBAPIError", 500, "")
                ELSE Unauthorized("User not found")]]
    /\ UNCHANGED <<now, storeVars, busVars>>

(***************************************************************************)
(* BaseService.update, BaseService.delete and the listing, with the        *)
(* repository methods they call.                                           *)
(***************************************************************************)
\* the roles and permissions that earlier requests created
EditorId == [of |-> <<"roles">>, n |-> 1]

ViewerId == [of |-> <<"roles">>, n |-> 2]

RolesWriteId == [of |-> <<"permissions">>, n |-> 1]

PostsReadId == [of |-> <<"permissions">>, n |-> 2]

\* an id that no row holds
AbsentId == [of |-> <<"absent">>, n |-> 1]

StoredRoles == {[id |-> EditorId, name |-> "editor"], [id |-> ViewerId, name |-> "viewer"]}

StoredPermissions ==
    {[id |-> RolesWriteId, resource |-> "roles", action |-> "write"],
     [id |-> PostsReadId, resource |-> "posts", action |-> "read"]}

\* role "editor" has been granted roles:write
StoredAssignments ==
    {[id |-> [of |-> <<"editor", "roles:write">>, n |-> 1], role_id |-> EditorId,
      permission_id |-> RolesWriteId]}

\* the ids a caller passes to update and delete
TargetIds(t) == {r.id : r \in (IF t = "users" THEN StoredUsers
                               ELSE IF t = "roles" THEN StoredRoles
                               ELSE StoredPermissions)} \cup {AbsentId}

\* the payloads of Service.update: UserUpdateSchema, RoleUpdateSchema,
\* PermissionUpdateSchema; the columns modelled are required fields of them
UpdateInputs ==
    {[NoObj EXCEPT !.table = "users", !.username = u, !.email = e] :
        u \in Usernames, e \in Emails}
    \cup {[NoObj EXCEPT !.table = "roles", !.name = n] : n \in {"editor", "viewer"}}
    \cup {[NoObj EXCEPT !.table = "permissions", !.resource = ra[1], !.action = ra[2]] :
            ra \in {<<"roles", "write">>, <<"posts", "read">>, <<"posts", "write">>}}

\* hasattr(self.repository.model, "deleted_at"): User has SoftDeleteMixin,
\* Role and Permission do not
SoftDeletes(t) == t = "users"

\* session.add(db_obj); flush() of a changed row: the row replaces the one
\* with its id
DbUpdate(p, t, row) == DbInsert(DbDelete(p, t, {row.id}), t, {row})

\* mutant of ExistsExcluding: the record itself is not excluded
ExistsIncluding(rows, exclude_id, filters, obj_in) ==
    \E r \in rows : \A f \in filters : r[f] = obj_in[f]

\* BaseRepository.exists_excluding(exclude_id, **filters)
ExistsExcluding(rows, exclude_id, filters, obj_in) ==
    \E r \in rows : r.id # exclude_id /\ \A f \in filters : r[f] = obj_in[f]

\* the before_update hook of the table's service: self.get(id), then the
\* uniqueness check that leaves out the record itself
BeforeUpdate(s, obj_in, id) ==
    LET t == obj_in.table
    IN IF ServiceGet(View(s, t), id) # Returned THEN ServiceGet(View(s, t), id).kind
       ELSE IF t = "users"
       THEN CheckUnique(View(s, "users"), obj_in.username, obj_in.email, id)
       ELSE IF \/ Exists(Seeded(t), UniqueFields(t), obj_in)
               \/ ExistsExcluding(View(s, t), id, UniqueFields(t), obj_in)
       THEN "already exists"
       ELSE "unique"

\* setattr(db_obj, field, value) for the fields of the payload
UpdatedRow(row, obj_in) ==
    IF obj_in.table = "users"
    THEN [row EXCEPT !.username = obj_in.username, !.email = obj_in.email]
    ELSE IF obj_in.table = "roles"
    THEN [row EXCEPT !.name = obj_in.name]
    ELSE [row EXCEPT !.resource = obj_in.resource, !.action = obj_in.action]

\* role_permissions.role_id and user_roles.role_id reference roles.id,
\* role_permissions.permission_id references permissions.id: a join row of
\* the session's view references the row
Referenced(s, t, id) ==
    \/ t = "roles" /\ \E r \in View(s, "role_permissions") : r.role_id = id
    \/ t = "roles" /\ \E r \in View(s, "user_roles") : r.role_id = id
    \/ t = "permissions" /\ \E r \in View(s, "role_permissions") : r.permission_id = id

\* service.update(id, obj_in) is called inside transaction(session):
\* before_update
ServiceUpdate(s, obj_in, id) ==
    /\ sess[s].pc = "idle"
    /\ calls < MaxCalls
    /\ calls' = calls + 1
    /\ UNCHANGED <<busVars, authVars>>
    /\ LET t == obj_in.table
           call == [Idle EXCEPT !.op = "update", !.obj_in = obj_in, !.id = id,
                                !.trace = <<"before_update">>, !.before = View(s, t)]
           unique == BeforeUpdate(s, obj_in, id)
       IN IF unique \in {"TypeError", "MultipleResultsFound"}
          THEN RaiseInTransaction(s, call, Error(unique), t)
          ELSE IF unique # "unique"
          THEN RaiseInTransaction(s, call, HttpError(409, {unique}), t)
          ELSE /\ sess' = [sess EXCEPT ![s] = [call EXCEPT !.pc = "update_flush"]]
               /\ UNCHANGED <<committed, pending, last>>

\* await self.get(id); obj_dict = obj_in.model_dump(exclude_unset=True);
\* BaseRepository.update: get, setattr, add, flush, refresh
ServiceUpdateFlush(s, ok) ==
    /\ sess[s].pc = "update_flush"
    /\ LET t == sess[s].obj_in.table
           id == sess[s].id
           call == [sess[s] EXCEPT !.trace = Append(@, "repository.update")]
           found == RepositoryGet(View(s, t), id)
       IN IF ServiceGet(View(s, t), id) # Returned
          THEN RaiseInTransaction(s, sess[s], ServiceGet(View(s, t), id), t)
          ELSE LET old == CHOOSE r \in found : TRUE
                   row == UpdatedRow(old, sess[s].obj_in)
                   writes == DbUpdate(pending[s], t, row)
               IN IF ~ok
                  THEN RaiseInTransaction(s, call, Error("DBAPIError"), t)
                  ELSE IF \/ Collides(Seeded(t), t, row)
                          \/ Collides(View(s, t) \ {old}, t, row)
                  THEN RaiseInTransaction(s, call, Error("IntegrityError"), t)
                  ELSE /\ pending' = [pending EXCEPT ![s] = writes]
                       /\ committed' = RepositoryFlush(s, writes)
                       /\ sess' = [sess EXCEPT ![s] = [call EXCEPT !.deleted = {old},
                                                                  !.inserted = {row},
                                                                  !.pc = "update_return"]]
                       /\ UNCHANGED last
    /\ UNCHANGED <<calls, busVars, authVars>>

\* await self.after_update(db_obj), which no service overrides; return db_obj
ServiceUpdateReturn(s) ==
    /\ sess[s].pc = "update_return"
    /\ ReturnInTransaction(s, [sess[s] EXCEPT !.trace = Append(@, "after_update")],
                           EmptyBag, sess[s].obj_in.table)
    /\ UNCHANGED <<calls, busVars, authVars>>

\* service.delete(id) is called inside transaction(session): before_delete,
\* which no service overrides
ServiceDelete(s, t, id) ==
    /\ sess[s].pc = "idle"
    /\ calls < MaxCalls
    /\ calls' = calls + 1
    /\ sess' = [sess EXCEPT ![s] =
                  [Idle EXCEPT !.op = "delete", !.obj_in = [NoObj EXCEPT !.table = t],
                               !.id = id, !.trace = <<"before_delete">>,
                               !.before = View(s, t), !.pc = "delete_flush"]]
    /\ UNCHANGED <<committed, pending, last, busVars, authVars>>

\* BaseRepository.soft_delete: db_obj.deleted_at = datetime.now()
SoftDeleted(row) == [row EXCEPT !.deleted_at = TRUE]

\* repository.soft_delete(id) or repository.force_delete(id): get the row,
\* return False when there is none, else mark or delete it and flush
ServiceDeleteFlush(s, ok) ==
    /\ sess[s].pc = "delete_flush"
    /\ LET t == sess[s].obj_in.table
           id == sess[s].id
           call == [sess[s] EXCEPT
                      !.trace = Append(@, IF SoftDeletes(t) THEN "repository.soft_delete"
                                          ELSE "repository.force_delete"),
                      !.pc = "delete_return"]
           found == RepositoryGet(View(s, t), id)
       IN IF found = {}
          THEN /\ sess' = [sess EXCEPT ![s] = call]
               /\ UNCHANGED <<committed, pending, last>>
          ELSE LET old == CHOOSE r \in found : TRUE
                   writes == IF SoftDeletes(t) THEN DbUpdate(pending[s], t, SoftDeleted(old))
                             ELSE DbDelete(pending[s], t, {id})
               IN IF ~ok
                  THEN RaiseInTransaction(s, call, Error("DBAPIError"), t)
                  ELSE IF ~SoftDeletes(t) /\ Referenced(s, t, id)
                  THEN RaiseInTransaction(s, call, Error("IntegrityError"), t)
                  ELSE /\ pending' = [pending EXCEPT ![s] = writes]
                       /\ committed' = RepositoryFlush(s, writes)
                       /\ sess' = [sess EXCEPT ![s] = [call EXCEPT !.deleted = {old}]]
                       /\ UNCHANGED last
    /\ UNCHANGED <<calls, busVars, authVars>>

\* await self.after_delete(id); if not success: raise HTTPException(404);
\* return True
ServiceDeleteReturn(s) ==
    /\ sess[s].pc = "delete_return"
    /\ LET t == sess[s].obj_in.table
           call == [sess[s] EXCEPT !.trace = Append(@, "after_delete")]
       IN IF call.deleted = {}
          THEN RaiseInTransaction(s, call, HttpError(404, {"Record not found"}), t)
          ELSE ReturnInTransaction(s, call, EmptyBag, t)
    /\ UNCHANGED <<calls, busVars, authVars>>

\* BaseRepository.get_multi and get_multi_paginated without filters and
\* search, as BaseService calls them: select(self.model), every row of the
\* table
GetMulti(rows) == rows

\* service.get_multi() or service.get_multi_paginated() of GET /
ServiceGetMulti(s, t) ==
    /\ sess[s].pc = "idle"
    /\ calls < MaxCalls
    /\ calls' = calls + 1
    /\ ReturnInTransaction(s, [Idle EXCEPT !.op = "get_multi",
                                           !.obj_in = [NoObj EXCEPT !.table = t],
                                           !.before = View(s, t),
                                           !.listed = GetMulti(View(s, t))],
                           EmptyBag, t)
    /\ UNCHANGED <<busVars, authVars>>

(***************************************************************************)
(* Specifications.                                                         *)
(***************************************************************************)
\* the committed role_permissions rows of earlier requests: none, or role
\* "user" granted p1 and p2 and role "admin" granted p1 and p3
InitialAssignments ==
    {{}, {<<"r_user", "p1">>, <<"r_user", "p2">>, <<"r_admin", "p1">>, <<"r_admin", "p3">>}}

\* the role and the permissions that concurrent requests sync
ConcRoleIds == {"r_user"}

ConcPermissionIds == {"p1", "p2"}

InitialRows(assignments) ==
    {[id |-> [of |-> a, n |-> 1], role_id |-> a[1], permission_id |-> a[2]] : a \in assignments}

Init ==
    /\ \E a \in InitialAssignments :
           committed = [t \in Tables |-> IF t = "role_permissions" THEN InitialRows(a) ELSE {}]
    /\ pending = [s \in Sessions |-> NoWrites]
    /\ sess = [s \in Sessions |-> Closed]
    /\ last = [s \in Sessions |-> NoCall]
    /\ calls = 0
    /\ handlers = [t \in EventTypes |-> <<>>]
    /\ subscribed = <<>>
    /\ pub = NoPublish
    /\ now = 0
    /\ auth = NoAuth

\* one request at a time
Next ==
    \E s \in {"A"} :
        \/ BeginTransaction(s)
        \/ CommitTransaction(s)
        \/ \E role_id \in RoleIdInputs, ids \in IdLists(PermissionIdInputs) :
               SyncPermissions(s, role_id, ids)
        \/ SyncPermissionsValidate(s)
        \/ SyncPermissionsReadExisting(s)
        \/ \E ok \in BOOLEAN : SyncPermissionsDelete(s, ok)
        \/ \E ok \in BOOLEAN : SyncPermissionsInsert(s, ok)
        \/ \E ok \in BOOLEAN : SyncPermissionsRefresh(s, ok)
        \/ \E user_id \in UserIdInputs, ids \in IdLists(RoleIdInputs) :
               SyncUserToRoles(s, user_id, ids)
        \/ SyncUserToRolesReadExisting(s)
        \/ CloseSession(s)

Spec == Init /\ [][Next]_vars

\* two requests, each with its own session, sync the permissions of roles
NextConc ==
    \E s \in Sessions :
        \/ BeginTransaction(s)
        \/ CommitTransaction(s)
        \/ \E role_id \in ConcRoleIds, ids \in IdLists(ConcPermissionIds) :
               SyncPermissions(s, role_id, ids)
        \/ SyncPermissionsValidate(s)
        \/ SyncPermissionsReadExisting(s)
        \/ \E ok \in BOOLEAN : SyncPermissionsDelete(s, ok)
        \/ \E ok \in BOOLEAN : SyncPermissionsInsert(s, ok)
        \/ \E ok \in BOOLEAN : SyncPermissionsRefresh(s, ok)

SpecConc == Init /\ [][NextConc]_vars

\* the application subscribes handlers and publishes events
NextBus ==
    \/ \E event_type \in EventTypes, handler \in Handlers : Subscribe(event_type, handler)
    \/ \E event \in Events, session \in SessionArgs, raise_on_error \in BOOLEAN :
           Publish(event, session, raise_on_error)
    \/ \E outcome \in HandlerOutcomes : PublishInvoke(outcome)
    \/ PublishEnd

SpecBus == Init /\ [][NextBus]_vars

\* the token operations, over a store that holds the users StoredUsers
InitAuth ==
    /\ committed = [t \in Tables |-> IF t = "users" THEN StoredUsers ELSE {}]
    /\ pending = [s \in Sessions |-> NoWrites]
    /\ sess = [s \in Sessions |-> Closed]
    /\ last = [s \in Sessions |-> NoCall]
    /\ calls = 0
    /\ handlers = [t \in EventTypes |-> <<>>]
    /\ subscribed = <<>>
    /\ pub = NoPublish
    /\ now = 0
    /\ auth = NoAuth

NextAuth ==
    \/ \E token_type \in TokenTypes, data \in DataInputs, expires_delta \in ExpiresDeltaInputs :
           IssueToken(token_type, data, expires_delta)
    \/ \E user \in committed["users"] : Login(user)
    \/ Tick
    \/ \E expected_type \in TokenTypes, token \in Presentable : Decode(expected_type, token)
    \/ \E token \in Presentable : RefreshUserTokens(token)
    \/ \E token \in Presentable, rejected \in BOOLEAN : GetCurrentUser(token, rejected)

SpecAuth == InitAuth /\ [][NextAuth]_vars

\* a client logs in and then refreshes, logs out and lets time pass, while
\* every token it ever held stays available for presentation
NextRotation ==
    \/ \E user \in committed["users"] : Login(user)
    \/ Tick
    \/ KeepCopy
    \/ \E token \in auth.held \cup auth.copies \cup {Garbage} : RefreshUserTokens(token)
    \/ \E token \in auth.held, rejected \in BOOLEAN : Logout(token, rejected)

SpecRotation == InitAuth /\ [][NextRotation]_vars

\* handlers are subscribed while the application starts; then a publisher
\* works inside a transaction scope
NextVeto ==
    \/ \E event_type \in EventTypes, handler \in Handlers :
           calls = 0 /\ Subscribe(event_type, handler)
    \/ \E username \in Usernames, email \in Emails, ok \in BOOLEAN :
           PublisherPersist("A", [username |-> username, email |-> email], ok)
    \/ \E event \in Events, raise_on_error \in BOOLEAN :
           PublisherPublish("A", event, raise_on_error)
    \/ \E outcome \in HandlerOutcomes : PublishInvoke(outcome)
    \/ PublishEnd
    \/ PublisherLeaveScope("A")

SpecVeto == Init /\ [][NextVeto]_vars

\* registration requests, one at a time, and requests that sync the roles
\* of a user inside transaction(session)
NextRegister ==
    \E s \in {"A"} :
        \/ \E username \in Usernames, email \in Emails :
               Register(s, [username |-> username, email |-> email])
        \/ \E ok \in BOOLEAN : RegisterCreate(s, ok)
        \/ \E ok \in BOOLEAN : RegisterCommit(s, ok)
        \/ BeginTransaction(s)
        \/ CommitTransaction(s)
        \/ \E user_id \in UserIdInputs, ids \in IdLists(RoleIdInputs) :
               SyncUserToRoles(s, user_id, ids)
        \/ SyncUserToRolesReadExisting(s)

SpecRegister == Init /\ [][NextRegister]_vars

\* requests that call Service.create inside transaction(session), one at a
\* time
NextCreate ==
    \E s \in {"A"} :
        \/ BeginTransaction(s)
        \/ CommitTransaction(s)
        \/ \E obj_in \in CreateInputs : ServiceCreate(s, obj_in)
        \/ \E ok \in BOOLEAN : ServiceCreateFlush(s, ok)
        \/ ServiceCreateReturn(s)

SpecCreate == Init /\ [][NextCreate]_vars

\* two registration requests in flight
NextRace ==
    \E s \in Sessions :
        \/ \E username \in Usernames, email \in Emails :
               Register(s, [username |-> username, email |-> email])
        \/ \E ok \in BOOLEAN : RegisterCreate(s, ok)
        \/ \E ok \in BOOLEAN : RegisterCommit(s, ok)

SpecRace == Init /\ [][NextRace]_vars

\* the write requests: the generated POST route and POST /auth/register
NextCrud ==
    \E s \in {"A"} :
        \/ \E obj_in \in CreateInputs : CrudCreate(s, obj_in)
        \/ \E ok \in BOOLEAN : CrudCreateFlush(s, ok)
        \/ CrudCreateRespond(s)
        \/ \E username \in Usernames, email \in Emails :
               Register(s, [username |-> username, email |-> email])
        \/ \E ok \in BOOLEAN : RegisterCreate(s, ok)
        \/ \E ok \in BOOLEAN : RegisterCommit(s, ok)

SpecCrud == Init /\ [][NextCrud]_vars

\* requests that create, update, delete and list users, roles and
\* permissions inside transaction(session), over a store that holds some
InitEntity ==
    /\ committed = [t \in Tables |->
                      IF t = "users" THEN StoredUsers
                      ELSE IF t = "roles" THEN StoredRoles
                      ELSE IF t = "permissions" THEN StoredPermissions
                      ELSE IF t = "role_permissions" THEN StoredAssignments
                      ELSE {}]
    /\ pending = [s \in Sessions |-> NoWrites]
    /\ sess = [s \in Sessions |-> Closed]
    /\ last = [s \in Sessions |-> NoCall]
    /\ calls = 0
    /\ handlers = [t \in EventTypes |-> <<>>]
    /\ subscribed = <<>>
    /\ pub = NoPublish
    /\ now = 0
    /\ auth = NoAuth

NextEntity ==
    \E s \in {"A"} :
        \/ BeginTransaction(s)
        \/ CommitTransaction(s)
        \/ CloseSession(s)
        \/ \E obj_in \in CreateInputs : ServiceCreate(s, obj_in)
        \/ \E ok \in BOOLEAN : ServiceCreateFlush(s, ok)
        \/ ServiceCreateReturn(s)
        \/ \E obj_in \in UpdateInputs :
               \E id \in TargetIds(obj_in.table) : ServiceUpdate(s, obj_in, id)
        \/ \E ok \in BOOLEAN : ServiceUpdateFlush(s, ok)
        \/ ServiceUpdateReturn(s)
        \/ \E t \in {"users", "roles", "permissions"} :
               \E id \in TargetIds(t) : ServiceDelete(s, t, id)
        \/ \E ok \in BOOLEAN : ServiceDeleteFlush(s, ok)
        \/ ServiceDeleteReturn(s)
        \/ \E t \in {"users", "roles", "permissions"} : ServiceGetMulti(s, t)

SpecEntity == InitEntity /\ [][NextEntity]_vars

\* the same stored records, neither user soft-deleted
LiveUsers == {[u EXCEPT !.deleted_at = FALSE] : u \in StoredUsers}

InitLive ==
    /\ committed = [t \in Tables |->
                      IF t = "users" THEN LiveUsers
                      ELSE IF t = "roles" THEN StoredRoles
                      ELSE IF t = "permissions" THEN StoredPermissions
                      ELSE IF t = "role_permissions" THEN StoredAssignments
                      ELSE {}]
    /\ pending = [s \in Sessions |-> NoWrites]
    /\ sess = [s \in Sessions |-> Closed]
    /\ last = [s \in Sessions |-> NoCall]
    /\ calls = 0
    /\ handlers = [t \in EventTypes |-> <<>>]
    /\ subscribed = <<>>
    /\ pub = NoPublish
    /\ now = 0
    /\ auth = NoAuth

SpecLive == InitLive /\ [][NextEntity]_vars

(***************************************************************************)
(* Properties of the sync engine.                                          *)
(***************************************************************************)
PermissionIds == {p.id : p \in Permissions}

RoleIds == {r.id : r \in Roles}

\* the ids a sync operation may reference
KnownIds(op) == IF op = "sync_permissions" THEN PermissionIds ELSE RoleIds

IsSync(c) == c.op \in {"sync_permissions", "sync_user_to_roles"}

\* in this step a service call of session s returns or raises
CallEnds(s) ==
    /\ sess'[s].pc \in {"idle", "none"}
    /\ last'[s].op # "none"
    /\ sess[s].pc \notin {"idle", "none"} \/ calls' # calls

\* no (role_id, permission_id) resp. (user_id, role_id) pair in two rows
NoDuplicatePairs(rows, a, b) ==
    \A x \in rows, y \in rows : (x[a] = y[a] /\ x[b] = y[b]) => x = y

\* C1: a sync call whose desired ids include one that references no
\* Permission (resp. Role) fails, deletes and inserts no join row and leaves
\* the session's and the committed membership as they were; when the synced
\* entity exists the failure is the 404 that names exactly the missing ids.
C1_ValidationBeforeMutation ==
    [][\A s \in Sessions :
          LET c == last'[s]
          IN (CallEnds(s) /\ IsSync(c) /\ ~(c.desired \subseteq KnownIds(c.op)))
             => /\ c.outcome # Returned
                /\ c.deleted = {} /\ c.inserted = {}
                /\ c.after = c.before
                /\ committed' = committed
                /\ (c.op = "sync_permissions" => RepositoryGet(Roles, c.role_id) # {})
                      => c.outcome = HttpError(404, c.desired \ KnownIds(c.op))]_vars

\* a sync_permissions call on a role that holds permissions was refused with
\* the 404 naming the one missing id of its two desired ids
C1_Witness ==
    \E s \in Sessions :
        /\ last[s].op = "sync_permissions"
        /\ last[s].outcome = HttpError(404, {UnknownPermissionId})
        /\ Cardinality(last[s].desired) = 2
        /\ GetByRole(last[s].before, last[s].role_id) # {}

\* C2: a sync_permissions call that returns has deleted exactly the role's
\* rows with a permission in E \ D, inserted exactly one row per permission
\* in D \ E, left every other row (of this and of any other role) in place,
\* and the role's persisted and returned permissions are exactly D.
C2_SyncPermissionsMinimal ==
    \A s \in Sessions :
        LET c == last[s]
            E == {rp.permission_id : rp \in GetByRole(c.before, c.role_id)}
            D == c.desired
        IN (c.op = "sync_permissions" /\ c.outcome = Returned)
           => /\ c.deleted = {rp \in GetByRole(c.before, c.role_id) : rp.permission_id \in E \ D}
              /\ \A rp \in c.inserted :
                     rp.role_id = c.role_id /\ rp.permission_id \in D \ E /\ rp \notin c.before
              /\ \A p \in D \ E : Cardinality({rp \in c.inserted : rp.permission_id = p}) = 1
              /\ c.after = (c.before \ c.deleted) \cup c.inserted
              /\ {rp.permission_id : rp \in GetByRole(c.after, c.role_id)} = D
              /\ c.returned = [p \in PermissionIds |-> IF p \in D THEN 1 ELSE 0]

\* a returned call that kept one permission, removed one and added one,
\* while another role held permissions
C2_Witness ==
    \E s \in Sessions :
        LET c == last[s]
            E == {rp.permission_id : rp \in GetByRole(c.before, c.role_id)}
        IN /\ c.op = "sync_permissions" /\ c.outcome = Returned
           /\ E \ c.desired # {} /\ c.desired \ E # {} /\ E \cap c.desired # {}
           /\ \E rp \in c.after : rp.role_id # c.role_id

\* C3: when a sync call returned and the next call of the same session is the
\* same operation on the same entity with the same desired set, the second
\* call deletes and inserts nothing and, when it returns, returns the
\* membership the first call returned.
C3_SyncIdempotent ==
    [][\A s \in Sessions :
          (/\ CallEnds(s)
           /\ IsSync(last[s]) /\ last[s].outcome = Returned
           /\ last'[s].op = last[s].op
           /\ last'[s].role_id = last[s].role_id /\ last'[s].user_id = last[s].user_id
           /\ last'[s].desired = last[s].desired)
          => /\ last'[s].deleted = {} /\ last'[s].inserted = {}
             /\ last'[s].after = last[s].after
             /\ last'[s].outcome = Returned => last'[s].returned = last[s].returned]_vars

\* the second of two equal calls returned, after the first had written rows
C3_Witness ==
    \E s \in Sessions :
        /\ last[s].op = "sync_permissions" /\ last[s].outcome = Returned
        /\ calls = 2
        /\ last[s].desired # {}
        /\ last[s].deleted = {} /\ last[s].inserted = {}
        /\ last[s].desired = {rp.permission_id : rp \in GetByRole(last[s].before, last[s].role_id)}
        /\ pending[s].ins["role_permissions"] # {}

\* C4: a sync_user_to_roles call whose desired ids all reference roles
\* returns, and the user's rows then reference exactly the desired roles.
C4_SyncUserToRolesReconciles ==
    \A s \in Sessions :
        LET c == last[s]
        IN (c.op = "sync_user_to_roles" /\ c.desired \subseteq RoleIds)
           => /\ c.outcome = Returned
              /\ {ur.role_id : ur \in {x \in c.after : x.user_id = c.user_id}} = c.desired

\* C5: no join table, committed or as a session sees it, holds a pair twice.
C5_JoinPairsUnique ==
    /\ NoDuplicatePairs(committed["role_permissions"], "role_id", "permission_id")
    /\ NoDuplicatePairs(committed["user_roles"], "user_id", "role_id")
    /\ \A s \in Sessions :
           /\ NoDuplicatePairs(View(s, "role_permissions"), "role_id", "permission_id")
           /\ NoDuplicatePairs(View(s, "user_roles"), "user_id", "role_id")

\* a call whose id list named one permission twice returned and inserted
\* one row for it
C5_Witness ==
    \E s \in Sessions :
        /\ last[s].op = "sync_permissions" /\ last[s].outcome = Returned
        /\ last[s].len > Cardinality(last[s].desired)
        /\ Cardinality(last[s].inserted) = 1

\* C7: a call that raises leaves the committed store as it was and nothing
\* of it pending; the committed store changes only by the commit of a session
\* in which no call is in progress, and then takes all writes of the session.
C7_SyncAtomic ==
    [][/\ \A s \in Sessions :
             (CallEnds(s) /\ last'[s].outcome # Returned)
             => committed' = committed /\ pending'[s] = NoWrites
       /\ committed' # committed
          => \E s \in Sessions :
                 /\ sess[s].pc = "idle" /\ sess'[s].status = "closed"
                 /\ committed' = DbCommit(s)]_vars

\* the bulk insert failed after the delete of committed rows had been flushed,
\* and the rows are still committed
C7_Witness ==
    \E s \in Sessions :
        /\ last[s].op = "sync_permissions" /\ last[s].outcome = Error("DBAPIError")
        /\ last[s].deleted # {} /\ last[s].inserted = {}
        /\ last[s].desired \ {rp.permission_id : rp \in last[s].before} # {}
        /\ last[s].deleted \subseteq committed["role_permissions"]

\* C6: when requests sync the permissions of one role concurrently, each in
\* its own session, the committed role_permissions table holds each
\* (role_id, permission_id) pair at most once.
C6_CommittedPairsUniqueConcurrently ==
    \A x \in committed["role_permissions"], y \in committed["role_permissions"] :
        (x.role_id = y.role_id /\ x.permission_id = y.permission_id) => x.id = y.id

(***************************************************************************)
(* Properties of registration.                                             *)
(***************************************************************************)
\* C8: after a registration request has returned, the committed user_roles
\* table holds exactly one row of the new user, and it references the role
\* named "user".
C8_RegisterAssignsDefaultRole ==
    \A s \in Sessions :
        (last[s].op = "register" /\ last[s].outcome = Returned)
        => LET rows == {ur \in committed["user_roles"] : ur.user_id = last[s].user_id}
           IN /\ Cardinality(rows) = 1
              /\ \A ur \in rows : \E r \in Roles : r.name = "user" /\ ur.role_id = r.id

(***************************************************************************)
(* Properties of the event bus.                                            *)
(***************************************************************************)
\* the handlers subscribed for the type of the published event before
\* publish was called, in the order of the subscribe calls
Expected ==
    LET regs == SelectSeq(SubSeq(subscribed, 1, pub.nsubs),
                          LAMBDA r : r.type = pub.event.type)
    IN [i \in 1..Len(regs) |-> regs[i].handler]

\* C9: the handlers publish has invoked so far are, position by position,
\* the handlers subscribed for exactly the type of the event, in subscription
\* order, each called with the event and the session given to publish; when
\* publish has ended and no invocation cut the loop short, every one of them
\* has been invoked.
C9_RegistrationOrder ==
    pub.pc # "idle"
    => /\ Len(pub.invoked) <= Len(Expected)
       /\ \A i \in 1..Len(pub.invoked) :
              /\ pub.invoked[i].handler = Expected[i]
              /\ pub.invoked[i].event = pub.event
              /\ pub.invoked[i].session = pub.session
       /\ (/\ pub.pc = "done"
           /\ \A i \in 1..Len(pub.invoked) :
                  \/ pub.invoked[i].outcome = "return"
                  \/ pub.invoked[i].outcome = "Exception" /\ ~pub.raise_on_error)
          => Len(pub.invoked) = Len(Expected)

\* publish ended after invoking two different handlers of the event's type,
\* while a handler was subscribed for the other type
C9_Witness ==
    /\ pub.pc = "done"
    /\ Len(pub.invoked) = 2
    /\ pub.invoked[1].handler # pub.invoked[2].handler
    /\ \E i \in 1..pub.nsubs : subscribed[i].type # pub.event.type

\* C10: when publish with raise_on_error=True has ended, either no handler
\* raised, all subscribed handlers ran and publish returned, or the first
\* handler to raise was the last one invoked and publish raised its exception.
C10_FailFast ==
    (pub.pc = "done" /\ pub.raise_on_error)
    => LET raised == {i \in 1..Len(pub.invoked) : pub.invoked[i].outcome # "return"}
       IN IF raised = {}
          THEN Len(pub.invoked) = Len(Expected) /\ pub.outcome = PublishReturned
          ELSE LET i == CHOOSE j \in raised : \A k \in raised : j <= k
               IN /\ Len(pub.invoked) = i
                  /\ pub.outcome = [kind |-> pub.invoked[i].outcome,
                                    handler |-> Expected[i], at |-> i]

\* the second of three handlers raised an Exception: the third was not
\* invoked and publish raised the exception of the second
C10_Witness ==
    /\ pub.pc = "done" /\ pub.raise_on_error
    /\ Len(pub.handlers) = 3
    /\ Len(pub.invoked) = 2
    /\ pub.invoked[1].outcome = "return"
    /\ pub.outcome = [kind |-> "Exception", handler |-> pub.handlers[2], at |-> 2]

\* C11: when publish with raise_on_error=False has ended and no handler left
\* it with a BaseException, every handler subscribed for the event's type was
\* invoked exactly once, in subscription order, whichever of them raised an
\* Exception, and publish returned normally.
C11_FireAndForget ==
    (/\ pub.pc = "done" /\ ~pub.raise_on_error
     /\ \A i \in 1..Len(pub.invoked) : pub.invoked[i].outcome # "BaseException")
    => /\ [i \in 1..Len(pub.invoked) |-> pub.invoked[i].handler] = Expected
       /\ pub.outcome = PublishReturned

\* the first of two handlers raised an Exception, the second ran and
\* returned, and publish returned
C11_Witness ==
    /\ pub.pc = "done" /\ ~pub.raise_on_error
    /\ Len(pub.invoked) = 2
    /\ pub.invoked[1].outcome = "Exception"
    /\ pub.invoked[2].outcome = "return"
    /\ pub.outcome = PublishReturned

(***************************************************************************)
(* Properties of a publisher inside a transaction scope.                   *)
(***************************************************************************)
\* C12: when the scope of a publisher ends after a handler raised, then with
\* raise_on_error=True the handler's exception leaves the scope, nothing is
\* committed, the session keeps no write and the persisted entity is absent
\* from the committed store; with raise_on_error=False a handler's Exception
\* does not prevent the commit of the entity.
C12_SubscriberVeto ==
    [][\A s \in Sessions :
          (sess[s].pc = "pb_wait" /\ sess'[s].pc # "pb_wait")
          => LET raised == {i \in 1..Len(pub.invoked) : pub.invoked[i].outcome # "return"}
                 first == CHOOSE j \in raised : \A k \in raised : j <= k
             IN /\ (pub.raise_on_error /\ raised # {})
                   => /\ last'[s].outcome = Error(pub.invoked[first].outcome)
                      /\ committed' = committed
                      /\ pending'[s] = NoWrites
                      /\ sess[s].inserted \cap committed'["users"] = {}
                /\ (/\ ~pub.raise_on_error /\ raised # {}
                    /\ \A i \in raised : pub.invoked[i].outcome = "Exception")
                   => /\ last'[s].outcome = Returned
                      /\ sess[s].inserted \subseteq committed'["users"]]_vars

\* a handler's Exception left the scope of a publisher that had persisted a
\* user: the user is not committed
C12_Witness ==
    \E s \in Sessions :
        /\ last[s].op = "publisher"
        /\ last[s].outcome = Error("Exception")
        /\ last[s].inserted # {}
        /\ last[s].inserted \cap committed["users"] = {}
        /\ pending[s] = NoWrites

(***************************************************************************)
(* Properties of the tokens.                                               *)
(***************************************************************************)
\* the token is validly signed and has not expired at instant t
ValidAt(token, t) == token.wellformed /\ token.key = SecretKey /\ token.payload.exp > t

\* C13: an access token made by create_access_token from claims with a
\* subject and a ttl (the default when none is given), decoded by
\* decode_access_token, yields the subject and type "access" at every instant
\* before issue time + ttl, and the "Access token expired" failure at every
\* instant after it.
C13_AccessTokenRoundTrip ==
    (/\ auth.made.op = "create_token" /\ auth.made.token_type = "access"
     /\ auth.made.data.sub # NoSub
     /\ auth.use.op = "access" /\ auth.use.presented \in auth.held)
    => LET ttl == IF auth.made.expires_delta = {} THEN DefaultAccessMinutes
                  ELSE Minutes(auth.made.expires_delta)
       IN /\ auth.use.at < auth.made.at + ttl
             => /\ auth.use.result.kind = "payload"
                /\ auth.use.result.payload.sub = auth.made.data.sub
                /\ auth.use.result.payload.type = "access"
          /\ auth.use.at > auth.made.at + ttl
             => auth.use.result = Unauthorized("Access token expired")

\* C14: a validly signed, unexpired token whose type tag differs from the
\* kind a decode function expects is rejected with "Invalid token type", and
\* a decode function returns a payload only for a token of the expected kind.
C14_TokenTypeConfusionRejected ==
    auth.use.op \in TokenTypes
    => /\ (/\ ValidAt(auth.use.presented, auth.use.at)
           /\ auth.use.presented.payload.type # auth.use.op)
          => auth.use.result = Unauthorized(InvalidTypeDetail(auth.use.op))
       /\ auth.use.result.kind = "payload"
          => /\ auth.use.presented.payload.type = auth.use.op
             /\ auth.use.result.payload = auth.use.presented.payload

\* an unexpired refresh token, made from claims that carry a "type" entry
\* of their own, was presented to decode_access_token and rejected for its type
C14_Witness ==
    /\ auth.use.op = "access"
    /\ auth.use.presented \in auth.held
    /\ auth.use.presented.payload.type = "refresh"
    /\ auth.made.data.type = "refresh"
    /\ auth.use.at > auth.made.at
    /\ auth.use.result = Unauthorized("Invalid token type. Expected access")

\* C15: refresh_user_tokens issues tokens only for a validly signed,
\* unexpired refresh token whose subject is a stored user that is not
\* soft-deleted, and then issues one access and one refresh token with that
\* subject; for such a token whose subject is not stored or is soft-deleted it
\* raises 401 and issues nothing.
C15_RefreshOnlyForLiveUser ==
    auth.use.op = "refresh_user_tokens"
    => LET token == auth.use.presented
           users == {u \in committed["users"] : Str(u.id) = token.payload.sub}
       IN /\ auth.use.result.kind = "tokens"
             => /\ ValidAt(token, auth.use.at) /\ token.payload.type = "refresh"
                /\ users # {} /\ \A u \in users : ~u.deleted_at
                /\ {x.payload.type : x \in auth.use.issued} = TokenTypes
                /\ Cardinality(auth.use.issued) = 2
                /\ \A x \in auth.use.issued :
                       ValidAt(x, auth.use.at) /\ x.payload.sub = token.payload.sub
          /\ auth.use.result.kind # "tokens" => auth.use.issued = {}
          /\ (/\ ValidAt(token, auth.use.at) /\ token.payload.type = "refresh"
              /\ token.payload.sub.repr = "uuid"
              /\ (users = {} \/ \E u \in users : u.deleted_at))
             => /\ auth.use.result.kind = "HTTPException"
                /\ auth.use.result.status = 401

\* an unexpired refresh token of the soft-deleted user was refused
C15_Witness ==
    /\ auth.use.op = "refresh_user_tokens"
    /\ ValidAt(auth.use.presented, auth.use.at)
    /\ auth.use.presented.payload.type = "refresh"
    /\ auth.use.presented.payload.sub = Str(BobId)
    /\ auth.use.result = Unauthorized("User not found or invalid")
    /\ auth.use.issued = {}

\* C16: the access token that create_tokens_for_user made for a live user,
\* presented unexpired to get_current_user, is accepted and resolves to the
\* record of that user.
C16_LoginTokenAuthenticates ==
    (/\ auth.made.op = "create_tokens_for_user"
     /\ auth.use.op = "get_current_user"
     /\ auth.use.presented \in auth.held
     /\ auth.use.presented.payload.type = "access"
     /\ ValidAt(auth.use.presented, auth.use.at))
    => /\ auth.use.result.kind = "user"
       /\ auth.use.user = {u \in committed["users"] : u.id = auth.made.user_id}

(***************************************************************************)
(* Properties of Service.create, BaseService.get and the request boundary. *)
(***************************************************************************)
\* the rows that hold the payload's value in every unique field of its table
SameUnique(rows, obj_in) ==
    {r \in rows : \A f \in UniqueFields(obj_in.table) : r[f] = obj_in[f]}

\* the number of records with the payload's unique values among `rows` and
\* the seeded rows of the table
Holds(rows, obj_in) ==
    Cardinality(SameUnique(Seeded(obj_in.table), obj_in)) + Cardinality(SameUnique(rows, obj_in))

\* C17: Service.create in a session that sees a record with identical
\* values of the unique fields (User: username and email, Role: name,
\* Permission: resource and action) raises Conflict (409) and stores nothing;
\* in a session that sees no record sharing a unique key it does not raise
\* Conflict, and when it returns the record is stored once.  So of two such
\* calls in a row one succeeds, one gets 409, and one record is held.
C17_SequentialCreateConflict ==
    \A s \in Sessions :
        last[s].op = "create" =>
            LET c == last[s]
                t == c.obj_in.table
            IN
                /\ (Holds(c.before, c.obj_in) >= 1 =>
                       /\ c.outcome.kind = "HTTPException"
                       /\ c.outcome.status = 409
                       /\ c.after = c.before)
                /\ (~Collides(Seeded(t), t, c.obj_in) /\ ~Collides(c.before, t, c.obj_in) =>
                       /\ c.outcome.kind \in {"returned", "DBAPIError"}
                       /\ (c.outcome = Returned => c.after = c.before \cup c.inserted))
                /\ Holds(c.after, c.obj_in) <= 1
                /\ (c.outcome = Returned => Holds(c.after, c.obj_in) = 1)

\* the second of two create calls with the same payload, the first of which
\* stored its record, ends with Conflict
C17_Witness ==
    /\ calls = 2
    /\ last["A"].op = "create"
    /\ last["A"].obj_in.table = "permissions"
    /\ last["A"].outcome.status = 409
    /\ SameUnique(last["A"].before, last["A"].obj_in) # {}
    /\ Holds(last["A"].after, last["A"].obj_in) = 1

\* C18: when two concurrent registrations with the same username or email
\* both pass before_create, the one that loses at the store's unique index
\* ends with Conflict, never with the raw IntegrityError, and the committed
\* users hold each username and each email at most once.
C18_RaceRemappedToConflict ==
    /\ \A s \in Sessions :
           last[s].op = "register" => last[s].outcome.kind # "IntegrityError"
    /\ \A u \in committed["users"], v \in committed["users"] :
           u # v => u.username # v.username /\ u.email # v.email

\* C19: BaseService.get raises NotFound (404) for an id that no row holds,
\* and so does sync_permissions, which starts with self.get(role_id): a call
\* for a role id of no role ends with HTTPException 404 and with no other
\* error.
C19_AbsentIsNotFound ==
    \A s \in Sessions :
        (last[s].op = "sync_permissions" /\ RepositoryGet(Roles, last[s].role_id) = {})
        => last[s].outcome.kind = "HTTPException" /\ last[s].outcome.status = 404

\* the write requests of the model
IsWrite(c) == c.op \in {"crud_create", "register"}

\* C20: a write request that returned success has committed its write (the
\* row it created is in the committed store when the request has ended), and
\* a write request that failed has committed nothing and left nothing
\* flushed in its session.
C20_SuccessfulWriteCommitted ==
    \A s \in Sessions :
        LET c == last[s]
        IN (IsWrite(c) /\ sess[s].status = "closed") =>
              /\ (c.op = "crud_create" /\ c.outcome = Returned) =>
                     (c.inserted # {} /\ c.inserted \subseteq committed[c.obj_in.table])
              /\ (c.op = "register" /\ c.outcome = Returned) =>
                     RepositoryGet(committed["users"], c.user_id) # {}
              /\ (c.op = "crud_create" /\ c.outcome # Returned) =>
                     /\ pending[s] = NoWrites
                     /\ c.inserted \cap committed[c.obj_in.table] = {}
              /\ (c.op = "register" /\ c.outcome # Returned) =>
                     /\ pending[s] = NoWrites
                     /\ RepositoryGet(committed["users"], c.user_id) = {}

(***************************************************************************)
(* Properties of update, delete and the listing.                           *)
(***************************************************************************)
\* C21: no repository mutation commits or rolls back.  The committed store
\* changes only in the step in which the transaction scope commits; every
\* create, update, force_delete and soft_delete leaves it as it was, and the
\* rollback that ends a session leaves it as it was and discards what the
\* repository calls had flushed.
C21_RepositoryNeverCommits ==
    [][\A s \in {"A"} :
          /\ committed' # committed =>
                 /\ sess[s].pc = "idle" /\ sess'[s].status = "closed"
                 /\ committed' = DbCommit(s)
          /\ sess[s].pc \notin {"idle", "none"} => committed' = committed
          /\ sess'[s].status = "closed" => pending'[s] = NoWrites]_vars

\* an update had been flushed in the session when a later call raised; the
\* session was rolled back and the committed users are the stored ones
C21_Witness ==
    /\ calls = 2
    /\ last["A"].op = "delete"
    /\ last["A"].outcome.status = 404
    /\ \E r \in last["A"].before : r \notin StoredUsers
    /\ sess["A"].status = "closed"
    /\ pending["A"] = NoWrites
    /\ committed["users"] = StoredUsers

\* C22: BaseService.delete on an existing id returns True; for a User it
\* keeps the row and sets deleted_at, for a Role or a Permission it removes
\* the row.  On an id of no row it raises NotFound (404) and changes nothing.
\* (A call that the database connection fails is left out.)
C22_DeleteSoftOrHard ==
    \A s \in Sessions :
        (last[s].op = "delete" /\ last[s].outcome.kind # "DBAPIError") =>
            LET c == last[s]
                t == c.obj_in.table
                found == RepositoryGet(c.before, c.id)
            IN /\ (found # {} /\ SoftDeletes(t)) =>
                      /\ c.outcome = Returned
                      /\ c.after = (c.before \ found) \cup {SoftDeleted(r) : r \in found}
               /\ (found # {} /\ ~SoftDeletes(t)) =>
                      /\ c.outcome = Returned
                      /\ c.after = c.before \ found
               /\ found = {} =>
                      /\ c.outcome.kind = "HTTPException" /\ c.outcome.status = 404
                      /\ c.after = c.before

\* C23: after Service.delete on a User the repository still gets the row
\* by id, with deleted_at set, and the default listing (get_multi,
\* get_multi_paginated) returns no row whose deleted_at is set.
C23_SoftDeleteVisibility ==
    \A s \in Sessions :
        LET c == last[s]
        IN /\ (c.op = "delete" /\ c.obj_in.table = "users" /\ c.outcome = Returned) =>
                  (RepositoryGet(c.after, c.id) # {}
                   /\ \A r \in RepositoryGet(c.after, c.id) : r.deleted_at)
           /\ (c.op = "get_multi" /\ c.obj_in.table = "users") =>
                  (\A r \in c.listed : ~r.deleted_at)

\* the rows that share the columns of one unique constraint with the payload
CollidingRows(rows, obj_in) ==
    {r \in rows : \E key \in UniqueConstraints(obj_in.table) :
                      \A f \in key : r[f] = obj_in[f]}

Subject(token) == {u \in committed["users"] : Str(u.id) = token.payload.sub}

\* C25: a refresh token is accepted by refresh_user_tokens on every
\* presentation, whatever was accepted, rotated or logged out before, as long
\* as it is validly signed and unexpired and its subject is a stored user that
\* is not soft-deleted; each acceptance issues the token pair that
\* create_tokens_for_user makes for that user at that instant.
C25_OldRefreshTokenStaysValid ==
    LET token == auth.use.presented
    IN (/\ auth.use.op = "refresh_user_tokens"
        /\ ValidAt(token, auth.use.at) /\ token.payload.type = "refresh"
        /\ Subject(token) # {} /\ \A u \in Subject(token) : ~u.deleted_at)
       => /\ auth.use.result = AuthResult("tokens", 200, "")
          /\ \A u \in Subject(token) : auth.use.issued = CreateTokensForUser(u, auth.use.at)
          /\ auth.use.issued = auth.held

\* after a logout, a refresh token was accepted a second time, later than the
\* rotation that replaced it
C25_Witness ==
    /\ auth.logged_out
    /\ auth.use.op = "refresh_user_tokens"
    /\ auth.use.result.kind = "tokens"
    /\ <<auth.use.presented, 2>> \in auth.accepted
    /\ auth.use.presented \in auth.copies \ auth.held
    /\ \E x \in auth.copies \cup auth.held :
                             /\ x.payload.type = "refresh"
                             /\ <<x, 1>> \in auth.accepted
                             /\ x.payload.iat > auth.use.presented.payload.iat
                             /\ x.payload.iat < auth.use.at

\* the order of BaseService.create
CreateOrder == <<"before_create", "repository.create", "after_create">>

\* C26: BaseService.create runs before_create, then repository.create, then
\* after_create.  When before_create raises Conflict, neither of the other
\* two is invoked, no row is added and the 409 reaches the caller; when the
\* call returns, after_create has been invoked once, after the flush of the
\* row, which the session then holds.
C26_ConflictAbortsCreate ==
    \A s \in Sessions :
        /\ (sess[s].op = "create" /\ sess[s].pc = "create_flush"
                => sess[s].trace = SubSeq(CreateOrder, 1, 1) /\ sess[s].inserted = {})
        /\ (sess[s].op = "create" /\ sess[s].pc = "create_return"
                => /\ sess[s].trace = SubSeq(CreateOrder, 1, 2)
                   /\ Cardinality(sess[s].inserted) = 1
                   /\ sess[s].inserted \subseteq View(s, sess[s].obj_in.table))
        /\ (last[s].op = "create" /\ last[s].outcome.kind = "HTTPException"
                => /\ last[s].outcome.status = 409
                   /\ last[s].trace = SubSeq(CreateOrder, 1, 1)
                   /\ last[s].inserted = {}
                   /\ last[s].after = last[s].before)
        /\ (last[s].op = "create" /\ last[s].outcome = Returned
                => /\ last[s].trace = CreateOrder
                   /\ Cardinality(last[s].inserted) = 1
                   /\ last[s].after = last[s].before \cup last[s].inserted)

\* one call was stopped by the Conflict of before_create after another had
\* run all three steps and stored its row
C26_Witness ==
    /\ calls = 2
    /\ last["A"].op = "create"
    /\ last["A"].outcome.kind = "HTTPException"
    /\ last["A"].trace = <<"before_create">>
    /\ last["A"].obj_in.table = "users"
    /\ \E row \in last["A"].before : row.username = last["A"].obj_in.username

\* C27: a create or an update of an existing user whose username or email is
\* held by at least one other user ends with Conflict (409) and changes
\* nothing, also when the username is held by one user and the email by
\* another; check_unique fails with no other error.
C27_EveryCollisionIsConflict ==
    \A s \in Sessions :
        LET c == last[s]
            self == IF c.op = "update" THEN RepositoryGet(c.before, c.id) ELSE {}
            others == CollidingRows(c.before \ self, c.obj_in)
        IN (/\ c.op \in {"create", "update"}
            /\ c.obj_in.table = "users"
            /\ c.op = "update" => self # {}
            /\ others # {})
           => /\ c.outcome.kind = "HTTPException" /\ c.outcome.status = 409
              /\ c.after = c.before

\* C28: Service.update for an id that no row holds raises NotFound (404) in
\* before_update, before repository.update and after_update, and writes
\* nothing; an update that returns has run before_update, repository.update
\* and after_update in this order, and the row carries the fields of the
\* payload.
C28_AbsentUpdateIsNotFound ==
    \A s \in Sessions :
        LET c == last[s]
            self == RepositoryGet(c.before, c.id)
        IN c.op = "update" =>
              /\ (self = {} =>
                     /\ c.outcome.kind = "HTTPException" /\ c.outcome.status = 404
                     /\ c.trace = <<"before_update">>
                     /\ c.inserted = {}
                     /\ c.after = c.before)
              /\ (c.outcome = Returned =>
                     /\ self # {}
                     /\ c.trace = <<"before_update", "repository.update", "after_update">>
                     /\ c.after = (c.before \ self)
                                     \cup {UpdatedRow(r, c.obj_in) : r \in self})

\* what a finished publish leaves behind of the exceptions of its handlers:
\* the exception it raised.  The list "errors" is a local of publish, which
\* neither returns it nor writes it anywhere.
Observable(p) == IF p.outcome.kind \in {"none", "returned"} THEN {} ELSE {p.outcome}

\* C29: when publish with raise_on_error=False has finished and handlers
\* raised, the exceptions it collected are observable after the dispatch.
C29_FailuresSurfaced ==
    (pub.pc = "done" /\ ~pub.raise_on_error)
    => \A i \in 1..Len(pub.errors) : pub.errors[i] \in Observable(pub)

\* the soft-deleted users that hold the username or the email of the payload
Reserving(rows, obj_in) ==
    {u \in rows : u.deleted_at /\ (u.username = obj_in.username \/ u.email = obj_in.email)}

\* C30: a create of a user, or an update of another user, with the username
\* or the email of a soft-deleted user ends with Conflict (409), and no live
\* user ever holds a username or an email of a soft-deleted one.
C30_SoftDeletedIdentifiersReserved ==
    /\ \A s \in Sessions :
           LET c == last[s]
               self == IF c.op = "update" THEN RepositoryGet(c.before, c.id) ELSE {}
           IN (/\ c.op \in {"create", "update"}
               /\ c.obj_in.table = "users"
               /\ c.op = "update" => self # {}
               /\ Reserving(c.before \ self, c.obj_in) # {})
              => /\ c.outcome.kind = "HTTPException" /\ c.outcome.status = 409
                 /\ c.after = c.before
    /\ \A u \in committed["users"], v \in committed["users"] :
           (u.deleted_at /\ ~v.deleted_at) => (u.username # v.username /\ u.email # v.email)

====
